---- MODULE Spec2Model ----
(***************************************************************************)
(* The Intcode virtual machine of src/intcode (program.rs, io.rs): memory, *)
(* instruction decoder, instruction execution and the two entry points     *)
(* execute and execute_until_event, driven by a caller that also supplies  *)
(* input with give_input.                                                  *)
(*                                                                         *)
(* Specifications: Spec (the machine with its default devices),            *)
(* SpecMemory (store and load_position alone), SpecDevices (the input and  *)
(* output devices of io.rs and the mpsc channel between a producer and a   *)
(* consumer thread), SpecChannelMachine (a machine reading from a          *)
(* ChannelInputDevice fed by a producer thread) and SpecOutput (the        *)
(* machine with get_output and get_all_output).                            *)
(*                                                                         *)
(* Representation of machine integers.  i64 values are mathematical        *)
(* integers kept within -MaxWord..MaxWord by the guards of the actions,    *)
(* far from the i64 range, so i64 arithmetic never overflows in the model. *)
(* A usize value u is represented by u itself when u < 2^63 and by         *)
(* u - 2^64 when u >= 2^63 (its two's complement reading): the cast        *)
(* `x as usize` of a negative x is therefore the huge address 2^64 + x,    *)
(* which the model writes x, and what the cast changes is the ORDER of     *)
(* addresses (usize_ge, usize_lt): every such address lies above every     *)
(* non-negative one.                                                       *)
(***************************************************************************)
EXTENDS Integers, Sequences, FiniteSets, TLC

VARIABLES
    machine,          \* the IntcodeProgram: memory, extended_memory, ip, relative_base, input, output
    mode,             \* where the caller is: "idle", inside "execute", inside "execute_until_event", or "panicked"
    ret,              \* what the last call returned ("pending" while a call is inside its loop)
    lastCall,         \* the entry point called last: "none", "execute" or "execute_until_event"
    callStart,        \* the machine as it was when the last call was entered
    pre,              \* the machine as it was before the last loop iteration (before the decode)
    executed,         \* the outcome of the last loop iteration: the decoded instruction, or the failure
    retBefore,        \* what the call before the last one returned
    given,            \* number of give_input calls made so far
    wrapped,          \* TRUE once an overflow of ip has wrapped: the build has no overflow checks
    stored,           \* SpecMemory: address -> the value last passed to store for it
    channel,          \* the messages in flight on the mpsc channel of the channel devices, oldest first
    senderAlive,      \* the Sender of the channel exists (the thread holding it has not dropped it)
    receiverAlive,    \* the Receiver of the channel exists
    inputDevice,      \* SpecDevices: the consumer's input device: its kind and its buffer
    outputDevice,     \* SpecDevices: the producer's ChannelOutputDevice: its buffer
    log,              \* what the device operations were given and returned so far, and the last one
    twin,             \* a second machine: the consumer of a pipeline, or the same program run in the other mode
    threads,          \* SpecPipeline: where the thread of each machine is, and what the last one published
    network,          \* SpecNetwork: the state of the coordinating loop of the switched network
    loader            \* SpecLoader: the text given to from_raw_input, and what it returned

\* the variables of the devices and their channel
ioVars == <<channel, senderAlive, receiverAlive, inputDevice, outputDevice, log>>

\* the variables of the drivers
extVars == <<twin, threads, network, loader>>

vars == <<machine, mode, ret, lastCall, callStart, pre, executed, retBefore, given, wrapped,
          stored, channel, senderAlive, receiverAlive, inputDevice, outputDevice, log,
          twin, threads, network, loader>>

----------------------------------------------------------------------------
(* Bounds of the model. *)

\* largest absolute value of a word the machine computes, and of ip
MaxWord == 30000
\* largest absolute value of the relative base
MaxRelativeBase == 6
\* give_input calls in one run
MaxInputs == 1
\* largest parameter word of a generated program
MaxParam == 0
\* values kept in the output device
MaxOutputs == 3

\* values the caller supplies with give_input
InputVals == {-1, 11}
\* what a console read (DefaultInputDevice::get on an empty buffer) can yield
ConsoleVals == {6}

----------------------------------------------------------------------------
(* Rust integer arithmetic. *)

\* i64 `/` truncates toward zero
RustDiv(a, b) == IF a >= 0 THEN a \div b ELSE -((-a) \div b)
\* i64 `%` has the sign of the dividend
RustRem(a, b) == a - b * RustDiv(a, b)

\* x as usize, in the representation described at the top
as_usize(x) == x
\* a >= b on usize
usize_ge(a, b) ==
    IF a < 0 THEN (b >= 0 \/ a >= b) ELSE (b >= 0 /\ a >= b)
\* a + k on usize overflows (k a small non-negative count)
usize_add_overflows(a, k) == a < 0 /\ a + k >= 0

----------------------------------------------------------------------------
(* VecDeque used as a queue: push_front to enqueue, pop_back to dequeue. *)

push_front(buffer, v) == <<v>> \o buffer
back(buffer) == buffer[Len(buffer)]
\* pop_back removing the newest element
pop_back_removes_front(buffer) == Tail(buffer)
pop_back(buffer) == SubSeq(buffer, 1, Len(buffer) - 1)

----------------------------------------------------------------------------
(* IntcodeProgram: memory. *)

EmptyMap == [a \in {} |-> 0]

from_memory(memory) ==
    [memory |-> memory, extended_memory |-> EmptyMap, ip |-> 0,
     relative_base |-> 0, input_device |-> "Default", input |-> <<>>,
     output |-> <<>>]

\* load_position without the extended memory: every address beyond the
\* loaded program reads 0
load_position_dense_only(m, location) ==
    IF usize_ge(location, Len(m.memory)) THEN 0 ELSE m.memory[location + 1]

load_position(m, location) ==
    IF usize_ge(location, Len(m.memory))
    THEN IF location \in DOMAIN m.extended_memory
         THEN m.extended_memory[location] ELSE 0
    ELSE m.memory[location + 1]

Parameter(param, pmode) == [param |-> param, mode |-> pmode]

\* load whose result passes through an i32 (the low 32 bits, sign-extended) of
\* a value held as 16-bit limbs
load_through_i32(m, p) ==
    LET fill == IF p.param[3] >= 32768 THEN 65535 ELSE 0
    IN <<fill, fill, p.param[3], p.param[4]>>

\* load that reads a relative parameter as a position
load_relative_as_position(m, p) ==
    CASE p.mode = "Immediate" -> p.param
      [] OTHER -> load_position(m, as_usize(p.param))

load(m, p) ==
    CASE p.mode = "Position" -> load_position(m, as_usize(p.param))
      [] p.mode = "Immediate" -> p.param
      [] p.mode = "Relative" -> load_position(m, as_usize(p.param + m.relative_base))

store(m, p, value) ==
    LET location == IF p.mode = "Relative"
                    THEN as_usize(p.param + m.relative_base)
                    ELSE as_usize(p.param)
    IN IF usize_ge(location, Len(m.memory))
       THEN [m EXCEPT !.extended_memory =
                [a \in DOMAIN @ \cup {location} |-> IF a = location THEN value ELSE @[a]]]
       ELSE [m EXCEPT !.memory[location + 1] = value]

----------------------------------------------------------------------------
(* Instruction decoder. *)

Opcodes == {1, 2, 3, 4, 5, 6, 7, 8, 9, 99}

\* Result<usize>: ok with the parameter count, or the "Invalid opcode" error
instruction_param_length(opcode) ==
    CASE opcode \in {1, 2, 7, 8} -> [ok |-> TRUE, val |-> 3]
      [] opcode \in {3, 4, 9} -> [ok |-> TRUE, val |-> 1]
      [] opcode \in {5, 6} -> [ok |-> TRUE, val |-> 2]
      [] opcode = 99 -> [ok |-> TRUE, val |-> 0]
      [] OTHER -> [ok |-> FALSE, val |-> 0]

DigitChar == <<"0", "1", "2", "3", "4", "5", "6", "7", "8", "9">>

RECURSIVE DigitChars(_)
DigitChars(n) ==
    IF n < 10 THEN <<DigitChar[n + 1]>>
    ELSE DigitChars(n \div 10) \o <<DigitChar[(n % 10) + 1]>>

\* i64::to_string, as the sequence of its chars
to_string(n) == IF n < 0 THEN <<"-">> \o DigitChars(-n) ELSE DigitChars(n)

rev(s) == [i \in 1..Len(s) |-> s[Len(s) + 1 - i]]

char_mode(x) ==
    CASE x = "0" -> "Position"
      [] x = "1" -> "Immediate"
      [] OTHER -> "Relative"

\* param_modes reading the mode digits most significant first
param_modes_unreversed(instruction, num_params) ==
    LET chars == to_string(RustDiv(instruction, 100))
    IN [k \in 1..num_params |->
            IF k <= Len(chars) THEN char_mode(chars[k]) ELSE "Position"]

\* the chars of instruction / 100, reversed, mapped to modes, chained with an
\* endless run of Position, of which num_params are taken
param_modes(instruction, num_params) ==
    LET chars == rev(to_string(RustDiv(instruction, 100)))
    IN [k \in 1..num_params |->
            IF k <= Len(chars) THEN char_mode(chars[k]) ELSE "Position"]

NoInstruction == [opcode |-> 0, params |-> <<>>]

\* get_instruction advancing ip over the word before it checks the opcode
get_instruction_advances_on_error(m) ==
    LET curr_ip == m.ip
        instruction == load_position(m, curr_ip)
        opcode == RustRem(instruction, 100)
        num_params == instruction_param_length(opcode)
    IN IF ~num_params.ok
       THEN [status |-> "Err", instr |-> NoInstruction, m |-> [m EXCEPT !.ip = curr_ip + 1]]
       ELSE LET modes == param_modes(instruction, num_params.val)
            IN [status |-> IF usize_add_overflows(curr_ip, 1 + num_params.val)
                           THEN "Overflow" ELSE "Ok",
                instr |-> [opcode |-> opcode,
                           params |-> [k \in 1..num_params.val |->
                                Parameter(load_position(m, curr_ip + k), modes[k])]],
                m |-> [m EXCEPT !.ip = curr_ip + 1 + num_params.val]]

\* status "Ok": instr is the decoded instruction and m has ip advanced past it;
\* "Err": invalid opcode, m untouched; "Overflow": ip + 1 + num_params exceeds
\* usize (m and instr are then what a build without overflow checks computes)
get_instruction(m) ==
    LET curr_ip == m.ip
        instruction == load_position(m, curr_ip)
        opcode == RustRem(instruction, 100)
        num_params == instruction_param_length(opcode)
    IN IF ~num_params.ok
       THEN [status |-> "Err", instr |-> NoInstruction, m |-> m]
       ELSE LET modes == param_modes(instruction, num_params.val)
            IN [status |-> IF usize_add_overflows(curr_ip, 1 + num_params.val)
                           THEN "Overflow" ELSE "Ok",
                instr |-> [opcode |-> opcode,
                           params |-> [k \in 1..num_params.val |->
                                Parameter(load_position(m, curr_ip + k), modes[k])]],
                m |-> [m EXCEPT !.ip = curr_ip + 1 + num_params.val]]

----------------------------------------------------------------------------
(* DefaultInputDevice and DefaultOutputDevice (a buffer each). *)

\* what one console read yields: a parsed integer, or a failure (stdout or
\* stdin failing, or a line that is no integer)
ConsoleOutcomes ==
    {[ok |-> TRUE, val |-> v] : v \in ConsoleVals} \cup {[ok |-> FALSE, val |-> 0]}

input_put(buffer, v) == push_front(buffer, v)

\* Result<i64> and the buffer afterwards
input_get(buffer, console) ==
    IF Len(buffer) > 0
    THEN [ok |-> TRUE, val |-> back(buffer), buffer |-> pop_back(buffer)]
    ELSE [ok |-> console.ok, val |-> console.val, buffer |-> buffer]

\* get_maybe taking the value given last
input_get_maybe_newest(buffer) ==
    IF Len(buffer) > 0
    THEN [some |-> TRUE, val |-> Head(buffer), buffer |-> Tail(buffer)]
    ELSE [some |-> FALSE, val |-> 0, buffer |-> buffer]

\* Option<i64> and the buffer afterwards
input_get_maybe(buffer) ==
    IF Len(buffer) > 0
    THEN [some |-> TRUE, val |-> back(buffer), buffer |-> pop_back(buffer)]
    ELSE [some |-> FALSE, val |-> 0, buffer |-> buffer]

\* output_put adding the value at the back, where get takes its values
output_put_at_back(buffer, v) == Append(buffer, v)

output_put(buffer, v) == push_front(buffer, v)

\* Option<i64> and the buffer afterwards (DefaultOutputDevice and
\* ChannelOutputDevice alike)
output_get(buffer) ==
    IF Len(buffer) > 0
    THEN [some |-> TRUE, val |-> back(buffer), buffer |-> pop_back(buffer)]
    ELSE [some |-> FALSE, val |-> 0, buffer |-> buffer]

\* get_all_output of IntcodeProgram on the buffer of its output device: the
\* values of the successive get() up to the first None, and the buffer
\* afterwards
RECURSIVE get_all_output(_)
get_all_output(buffer) ==
    LET o == output_get(buffer)
    IN IF o.some
       THEN LET rest == get_all_output(o.buffer)
            IN [out |-> <<o.val>> \o rest.out, buffer |-> rest.buffer]
       ELSE [out |-> <<>>, buffer |-> o.buffer]

\* The std::sync::mpsc channel the channel devices hold an end of: a queue
\* of the messages in flight, and whether each end still exists.
\* send that reports success and loses the message
send_lost(queue, receiver_alive, v) == [ok |-> TRUE, queue |-> queue]

\* Sender::send fails only when the receiver is gone
send(queue, receiver_alive, v) ==
    IF receiver_alive
    THEN [ok |-> TRUE, queue |-> Append(queue, v)]
    ELSE [ok |-> FALSE, queue |-> queue]

\* try_recv taking the newest message in flight
try_recv_newest(queue) ==
    IF Len(queue) > 0
    THEN [ok |-> TRUE, val |-> back(queue), queue |-> pop_back(queue)]
    ELSE [ok |-> FALSE, val |-> 0, queue |-> queue]

\* Receiver::try_recv: the oldest message in flight, or Err (Empty, or
\* Disconnected when the sender is gone too)
try_recv(queue) ==
    IF Len(queue) > 0
    THEN [ok |-> TRUE, val |-> Head(queue), queue |-> Tail(queue)]
    ELSE [ok |-> FALSE, val |-> 0, queue |-> queue]

\* recv waiting for a message whether the sender exists or not
recv_returns_with_message_only(queue, sender_alive) == Len(queue) > 0

\* Receiver::recv waits while no message is in flight and the sender exists
recv_returns(queue, sender_alive) == Len(queue) > 0 \/ ~sender_alive

\* Receiver::recv once it returns: the oldest message in flight, or Err when
\* the sender is gone and nothing is in flight
recv(queue) == try_recv(queue)

\* no message: what a device that holds no channel has for try_recv
NoMessage == [ok |-> FALSE, val |-> 0, queue |-> <<>>]

channel_input_put(buffer, v) == push_front(buffer, v)

\* Result<i64>, the buffer afterwards, and whether the value came off the
\* channel; received is what self.channel.recv() returned
channel_input_get(buffer, received) ==
    IF Len(buffer) > 0
    THEN [ok |-> TRUE, val |-> back(buffer), buffer |-> pop_back(buffer),
          from_channel |-> FALSE]
    ELSE [ok |-> received.ok, val |-> received.val, buffer |-> buffer,
          from_channel |-> received.ok]

\* channel_input_get_maybe never turning to the channel
channel_input_get_maybe_buffer_only(buffer, received) ==
    IF Len(buffer) > 0
    THEN [some |-> TRUE, val |-> back(buffer), buffer |-> pop_back(buffer),
          from_channel |-> FALSE]
    ELSE [some |-> FALSE, val |-> 0, buffer |-> buffer, from_channel |-> FALSE]

\* channel_input_get_maybe asking the channel first
channel_input_get_maybe_channel_first(buffer, received) ==
    IF received.ok
    THEN [some |-> TRUE, val |-> received.val, buffer |-> buffer,
          from_channel |-> TRUE]
    ELSE IF Len(buffer) > 0
    THEN [some |-> TRUE, val |-> back(buffer), buffer |-> pop_back(buffer),
          from_channel |-> FALSE]
    ELSE [some |-> FALSE, val |-> 0, buffer |-> buffer, from_channel |-> FALSE]

\* Option<i64>, the buffer afterwards, and whether the value came off the
\* channel; received is what self.channel.try_recv() returned
channel_input_get_maybe(buffer, received) ==
    IF Len(buffer) > 0
    THEN [some |-> TRUE, val |-> back(buffer), buffer |-> pop_back(buffer),
          from_channel |-> FALSE]
    ELSE IF received.ok
    THEN [some |-> TRUE, val |-> received.val, buffer |-> buffer,
          from_channel |-> TRUE]
    ELSE [some |-> FALSE, val |-> 0, buffer |-> buffer, from_channel |-> FALSE]

\* channel_output_put keeping the value at the back of the buffer, where
\* get takes its values
channel_output_put_at_back(buffer, v, sent) ==
    IF sent.ok THEN buffer ELSE Append(buffer, v)

\* the buffer afterwards; sent is what self.channel.send(output) returned
channel_output_put(buffer, v, sent) ==
    IF sent.ok THEN buffer ELSE push_front(buffer, v)

----------------------------------------------------------------------------
(* Instruction execution. *)

bool_to_int(b) == IF b THEN 1 ELSE 0

\* Each arm of the match of execute_instruction yields the machine afterwards
\* and the Result<Option<Event>>: "None", an Event, or "Err".

execute_add_subtracts(m, o1, o2, dest) ==
    [m |-> store(m, dest, load(m, o1) - load(m, o2)), event |-> "None"]

execute_add(m, o1, o2, dest) ==
    [m |-> store(m, dest, load(m, o1) + load(m, o2)), event |-> "None"]

\* execute_mul adding, as the disassembler's rendering of Mul has it
execute_mul_adds(m, o1, o2, dest) ==
    [m |-> store(m, dest, load(m, o1) + load(m, o2)), event |-> "None"]

execute_mul(m, o1, o2, dest) ==
    [m |-> store(m, dest, load(m, o1) * load(m, o2)), event |-> "None"]

\* execute_load_input polling the device whatever input_break says
execute_load_input_always_polls(m, dest, input_break, console) ==
    LET got == input_get_maybe(m.input)
    IN IF got.some
       THEN [m |-> store([m EXCEPT !.input = got.buffer], dest, got.val),
             event |-> "None"]
       ELSE [m |-> m, event |-> "InputRequired"]

\* execute_load_input calling get whatever input_break says
execute_load_input_always_gets(m, dest, input_break, console) ==
    LET got == IF m.input_device = "Channel"
               THEN channel_input_get(m.input, console)
               ELSE input_get(m.input, console)
    IN IF got.ok
       THEN [m |-> store([m EXCEPT !.input = got.buffer], dest, got.val),
             event |-> "None"]
       ELSE [m |-> m, event |-> "Err"]

\* console is what the source behind the input device yields when the
\* device turns to it: a console read (DefaultInputDevice::get), recv
\* (ChannelInputDevice::get) or try_recv (ChannelInputDevice::get_maybe)
execute_load_input(m, dest, input_break, console) ==
    IF input_break
    THEN LET got == IF m.input_device = "Channel"
                    THEN channel_input_get_maybe(m.input, console)
                    ELSE input_get_maybe(m.input)
         IN IF got.some
            THEN [m |-> store([m EXCEPT !.input = got.buffer], dest, got.val),
                  event |-> "None"]
            ELSE [m |-> m, event |-> "InputRequired"]
    ELSE LET got == IF m.input_device = "Channel"
                    THEN channel_input_get(m.input, console)
                    ELSE input_get(m.input, console)
         IN IF got.ok
            THEN [m |-> store([m EXCEPT !.input = got.buffer], dest, got.val),
                  event |-> "None"]
            ELSE [m |-> m, event |-> "Err"]

execute_output(m, val) ==
    [m |-> [m EXCEPT !.output = output_put(@, load(m, val))],
     event |-> "ProducedOutput"]

execute_jump_if_true(m, predicate, target) ==
    [m |-> IF load(m, predicate) # 0
           THEN [m EXCEPT !.ip = as_usize(load(m, target))] ELSE m,
     event |-> "None"]

\* execute_jump_if_false with the test of JumpIfTrue
execute_jump_if_false_inverted(m, predicate, target) ==
    [m |-> IF load(m, predicate) # 0
           THEN [m EXCEPT !.ip = as_usize(load(m, target))] ELSE m,
     event |-> "None"]

execute_jump_if_false(m, predicate, target) ==
    [m |-> IF load(m, predicate) = 0
           THEN [m EXCEPT !.ip = as_usize(load(m, target))] ELSE m,
     event |-> "None"]

execute_less_than(m, o1, o2, dest) ==
    [m |-> store(m, dest, bool_to_int(load(m, o1) < load(m, o2))), event |-> "None"]

execute_equals(m, o1, o2, dest) ==
    [m |-> store(m, dest, bool_to_int(load(m, o1) = load(m, o2))), event |-> "None"]

\* execute_adjust_relative_base setting the register instead of adding to it
execute_adjust_relative_base_sets(m, val) ==
    [m |-> [m EXCEPT !.relative_base = load(m, val)], event |-> "None"]

execute_adjust_relative_base(m, val) ==
    [m |-> [m EXCEPT !.relative_base = @ + load(m, val)], event |-> "None"]

execute_instruction(m, instruction, input_break, console) ==
    LET op == instruction.opcode
        p == instruction.params
    IN CASE op = 1 -> execute_add(m, p[1], p[2], p[3])
         [] op = 2 -> execute_mul(m, p[1], p[2], p[3])
         [] op = 3 -> execute_load_input(m, p[1], input_break, console)
         [] op = 4 -> execute_output(m, p[1])
         [] op = 5 -> execute_jump_if_true(m, p[1], p[2])
         [] op = 6 -> execute_jump_if_false(m, p[1], p[2])
         [] op = 7 -> execute_less_than(m, p[1], p[2], p[3])
         [] op = 8 -> execute_equals(m, p[1], p[2], p[3])
         [] op = 9 -> execute_adjust_relative_base(m, p[1])
         [] op = 99 -> [m |-> m, event |-> "Exited"]

\* One iteration of the loop of execute.  ret is "pending" when the loop goes
\* on, else what the call returns: "Ok", "Err(Invalid opcode)", "Err(input)",
\* or "panic" when the thread panics on the overflow of ip.
execute_iteration(m, console, overflow_panics) ==
    LET dec == get_instruction(m)
    IN IF dec.status = "Err"
       THEN [m |-> dec.m, ret |-> "Err(Invalid opcode)", instr |-> dec.instr]
       ELSE IF dec.status = "Overflow" /\ overflow_panics
       THEN [m |-> m, ret |-> "panic", instr |-> NoInstruction]
       ELSE LET r == execute_instruction(dec.m, dec.instr, FALSE, console)
            IN [m |-> r.m,
                ret |-> CASE r.event = "Err" -> "Err(input)"
                          [] r.event = "Exited" -> "Ok"
                          [] OTHER -> "pending",
                instr |-> dec.instr]

\* execute_until_event_iteration with the rollback of ip missing when the
\* input is not there
execute_until_event_iteration_no_rollback(m, received, overflow_panics) ==
    LET curr_ip == m.ip
        dec == get_instruction(m)
    IN IF dec.status = "Err"
       THEN [m |-> dec.m, ret |-> "Err(Invalid opcode)", instr |-> dec.instr]
       ELSE IF dec.status = "Overflow" /\ overflow_panics
       THEN [m |-> m, ret |-> "panic", instr |-> NoInstruction]
       ELSE LET r == execute_instruction(dec.m, dec.instr, TRUE, received)
            IN CASE r.event = "None" ->
                      [m |-> r.m, ret |-> "pending", instr |-> dec.instr]
                 [] r.event \in {"ProducedOutput", "InputRequired"} ->
                      [m |-> r.m, ret |-> r.event, instr |-> dec.instr]
                 [] OTHER ->
                      [m |-> [r.m EXCEPT !.ip = curr_ip], ret |-> r.event,
                       instr |-> dec.instr]

\* execute_until_event_iteration with ip rolled back after every event,
\* ProducedOutput included
execute_until_event_iteration_rollback_output(m, received, overflow_panics) ==
    LET curr_ip == m.ip
        dec == get_instruction(m)
    IN IF dec.status = "Err"
       THEN [m |-> dec.m, ret |-> "Err(Invalid opcode)", instr |-> dec.instr]
       ELSE IF dec.status = "Overflow" /\ overflow_panics
       THEN [m |-> m, ret |-> "panic", instr |-> NoInstruction]
       ELSE LET r == execute_instruction(dec.m, dec.instr, TRUE, received)
            IN CASE r.event = "None" ->
                      [m |-> r.m, ret |-> "pending", instr |-> dec.instr]
                 [] OTHER ->
                      [m |-> [r.m EXCEPT !.ip = curr_ip], ret |-> r.event,
                       instr |-> dec.instr]

\* execute_until_event_iteration with ip left behind the Exit
execute_until_event_iteration_past_exit(m, received, overflow_panics) ==
    LET curr_ip == m.ip
        dec == get_instruction(m)
    IN IF dec.status = "Err"
       THEN [m |-> dec.m, ret |-> "Err(Invalid opcode)", instr |-> dec.instr]
       ELSE IF dec.status = "Overflow" /\ overflow_panics
       THEN [m |-> m, ret |-> "panic", instr |-> NoInstruction]
       ELSE LET r == execute_instruction(dec.m, dec.instr, TRUE, received)
            IN CASE r.event = "None" ->
                      [m |-> r.m, ret |-> "pending", instr |-> dec.instr]
                 [] r.event \in {"ProducedOutput", "Exited"} ->
                      [m |-> r.m, ret |-> r.event, instr |-> dec.instr]
                 [] OTHER ->
                      [m |-> [r.m EXCEPT !.ip = curr_ip], ret |-> r.event,
                       instr |-> dec.instr]

\* One iteration of the loop of execute_until_event.  ret is "pending" when
\* the loop goes on, else "InputRequired", "ProducedOutput", "Exited",
\* "Err(Invalid opcode)" or "panic".
execute_until_event_iteration(m, received, overflow_panics) ==
    LET curr_ip == m.ip
        dec == get_instruction(m)
    IN IF dec.status = "Err"
       THEN [m |-> dec.m, ret |-> "Err(Invalid opcode)", instr |-> dec.instr]
       ELSE IF dec.status = "Overflow" /\ overflow_panics
       THEN [m |-> m, ret |-> "panic", instr |-> NoInstruction]
       ELSE LET r == execute_instruction(dec.m, dec.instr, TRUE, received)
            IN CASE r.event = "None" ->
                      [m |-> r.m, ret |-> "pending", instr |-> dec.instr]
                 [] r.event = "ProducedOutput" ->
                      [m |-> r.m, ret |-> "ProducedOutput", instr |-> dec.instr]
                 [] OTHER ->
                      [m |-> [r.m EXCEPT !.ip = curr_ip], ret |-> r.event,
                       instr |-> dec.instr]

----------------------------------------------------------------------------
(* The programs the machine is constructed from. *)

ModeDigits == {0, 1, 2}
ParamVals == (-1)..MaxParam
ParamCount ==
    [op \in Opcodes |-> CASE op \in {1, 2, 7, 8} -> 3 [] op \in {3, 4, 9} -> 1
                          [] op \in {5, 6} -> 2 [] OTHER -> 0]

\* one instruction: the word made of the opcode and the mode digits of its
\* parameters, followed by the parameters
Instr(op, md, pv) ==
    LET n == ParamCount[op]
        digits == [k \in 1..3 |-> IF k <= n THEN md[k] ELSE 0]
    IN <<op + 100 * digits[1] + 1000 * digits[2] + 10000 * digits[3]>>
        \o [k \in 1..n |-> pv[k]]

\* an optional adjustment of the relative base, one instruction of every
\* opcode, mode and parameter, then an Output and an Exit
Prefixes == {<<>>, <<109, 2>>}
Suffix == <<4, 0, 99>>
GeneratedPrograms ==
    {pf \o Instr(op, md, pv) \o Suffix :
        pf \in Prefixes, op \in Opcodes,
        md \in [1..3 -> ModeDigits], pv \in [1..3 -> ParamVals]}

CuratedPrograms ==
    { <<1101, 3, 4, 50, 99>>,               \* a store to 10 x the program length
      <<3, 50, 4, 50, 104, 7, 99>>,         \* input to and output from address 50
      <<3, 0, 3, 1, 99>>,                   \* two inputs
      <<104, 5, 109, 3, 204, -3, 99>>,      \* two outputs, an adjustment between
      <<1101, 4, 0, -1, 1105, 1, -1>>,      \* an Output at address 2^64 - 1
      <<1101, 99, 0, -1, 1105, 1, -1>>,     \* an Exit at address 2^64 - 1
      <<109, -1, 109, -1, 204, 2, 99>>,     \* the relative base decreasing
      <<109, 1, 9, 1, 21101, 5, 6, 9, 99>>, \* the relative base accumulating
      <<1002, 4, 3, 4, 33>>,                \* a program that writes its own Exit
      <<304, 1, 99>>, <<11104, 8, 99>>,     \* mode digits beyond 2, spare digits
      <<0>>, <<10, 0>>, <<98>>, <<199>>, <<-1>>, <<-99>>, <<-101, 1>> }

Programs == GeneratedPrograms \cup CuratedPrograms

----------------------------------------------------------------------------
(* The caller: construction, give_input, and the two entry points. *)

Abs(x) == IF x < 0 THEN -x ELSE x

Addresses(m) == (0..(Len(m.memory) - 1)) \cup DOMAIN m.extended_memory

\* the bounds of the model: the words written, the relative base and the
\* number of outputs stay small
WithinBounds(m, m2) ==
    /\ Abs(m2.relative_base) <= MaxRelativeBase
    /\ Abs(m2.ip) <= MaxWord
    /\ Len(m2.output) <= MaxOutputs
    /\ \A a \in Addresses(m2) :
          load_position(m2, a) # load_position(m, a) => Abs(load_position(m2, a)) <= MaxWord

\* no operation made yet on a device
NoOperation ==
    [op |-> "none", ok |-> FALSE, val |-> 0, from |-> "none", buffer |-> <<>>,
     channel |-> <<>>]

\* put, got: the values the input device was given with put, and returned;
\* output, fetched: the values the ChannelOutputDevice was given with put, and
\* those an output device returned; emitted: the values the machine gave its
\* output device, one for each Output executed; all: what the last
\* get_all_output returned; last: the last operation
EmptyLog ==
    [put |-> <<>>, got |-> <<>>, output |-> <<>>, fetched |-> <<>>,
     emitted |-> <<>>, all |-> <<>>, last |-> NoOperation]

\* the machine holds its default devices: no channel, no device apart
NoDevices ==
    /\ channel = <<>>
    /\ senderAlive = FALSE
    /\ receiverAlive = FALSE
    /\ inputDevice = [kind |-> "Default", buffer |-> <<>>]
    /\ outputDevice = [buffer |-> <<>>]
    /\ log = EmptyLog

\* no second machine, no network, no text loaded
NoDrivers ==
    /\ twin = from_memory(<<>>)
    /\ threads = <<>>
    /\ network = <<>>
    /\ loader = <<>>

Init ==
    /\ \E program \in Programs : machine = from_memory(program)
    /\ mode = "idle"
    /\ ret = "none"
    /\ lastCall = "none"
    /\ callStart = machine
    /\ pre = machine
    /\ executed = NoInstruction
    /\ retBefore = "none"
    /\ given = 0
    /\ wrapped = FALSE
    /\ stored = EmptyMap
    /\ NoDevices
    /\ NoDrivers

\* IntcodeProgram::give_input
GiveInput ==
    /\ mode = "idle"
    /\ given < MaxInputs
    /\ \E v \in InputVals :
          machine' = [machine EXCEPT !.input = input_put(@, v)]
    /\ given' = given + 1
    /\ UNCHANGED <<mode, ret, lastCall, callStart, pre, executed, retBefore, wrapped, stored>>
    /\ UNCHANGED ioVars
    /\ UNCHANGED extVars

\* the console outcomes an iteration on m can depend on: execute reads the
\* console only at a LoadInput with an empty input buffer
ConsoleChoices(m) ==
    IF RustRem(load_position(m, m.ip), 100) = 3 /\ Len(m.input) = 0
    THEN ConsoleOutcomes ELSE {[ok |-> FALSE, val |-> 0]}

\* Whether the overflow of ip panics or wraps depends on the build (overflow
\* checks are on in a debug build, off in a release build), and is the same
\* all along a run: once an overflow has wrapped, every overflow wraps.
OverflowChoices(m) ==
    IF get_instruction(m).status = "Overflow" /\ ~wrapped THEN BOOLEAN ELSE {FALSE}

\* the iteration on m executes a LoadInput whose device, its buffer being
\* empty, turns to the source behind it
InputTurnsToSource(m) ==
    RustRem(load_position(m, m.ip), 100) = 3 /\ Len(m.input) = 0

\* what get can have from the source behind the device of m: a console read
\* (DefaultInputDevice) or what recv returns (ChannelInputDevice)
GetChoices(m) ==
    IF m.input_device = "Channel"
    THEN IF InputTurnsToSource(m) THEN {recv(channel)} ELSE {NoMessage}
    ELSE ConsoleChoices(m)

\* what get_maybe has from the source behind the device of m: what try_recv
\* returns (ChannelInputDevice), nothing for a DefaultInputDevice
GetMaybeChoices(m) ==
    IF m.input_device = "Channel" /\ InputTurnsToSource(m)
    THEN {try_recv(channel)} ELSE {NoMessage}

\* get on m returns: ChannelInputDevice::get on an empty buffer waits in recv
GetReturns(m) ==
    (m.input_device = "Channel" /\ InputTurnsToSource(m)) =>
        recv_returns(channel, senderAlive)

\* the effect of one loop iteration r made inside call, received being what
\* the source behind the input device had
IterationEffect(call, r, received) ==
    /\ machine' = r.m
    /\ pre' = machine
    /\ executed' = r.instr
    /\ ret' = r.ret
    /\ lastCall' = call
    /\ mode' = CASE r.ret = "pending" -> call
                 [] r.ret = "panic" -> "panicked"
                 [] OTHER -> "idle"
    /\ wrapped' = (wrapped \/ (get_instruction(machine).status = "Overflow" /\ r.ret # "panic"))
    /\ channel' = IF /\ machine.input_device = "Channel"
                     /\ r.instr.opcode = 3
                     /\ Len(machine.input) = 0
                     /\ received.ok
                  THEN received.queue ELSE channel
    /\ log' = IF r.instr.opcode = 4
              THEN [log EXCEPT !.emitted = Append(@, load(machine, r.instr.params[1]))]
              ELSE log
    /\ UNCHANGED <<given, stored>>
    /\ UNCHANGED <<senderAlive, receiverAlive, inputDevice, outputDevice>>
    /\ UNCHANGED extVars

\* one loop iteration, kept within the bounds of the model
Iterate(call, r, received) ==
    /\ WithinBounds(machine, r.m)
    /\ IterationEffect(call, r, received)

\* IntcodeProgram::execute is called: the first iteration of its loop
Execute ==
    /\ mode = "idle"
    /\ callStart' = machine
    /\ retBefore' = ret
    /\ GetReturns(machine)
    /\ \E console \in GetChoices(machine), overflow_panics \in OverflowChoices(machine) :
          \E r \in {execute_iteration(machine, console, overflow_panics)} :
              Iterate("execute", r, console)

\* a further iteration of the loop of execute
ExecuteLoop ==
    /\ mode = "execute"
    /\ UNCHANGED <<callStart, retBefore>>
    /\ GetReturns(machine)
    /\ \E console \in GetChoices(machine), overflow_panics \in OverflowChoices(machine) :
          \E r \in {execute_iteration(machine, console, overflow_panics)} :
              Iterate("execute", r, console)

\* IntcodeProgram::execute_until_event is called: the first iteration of its loop
ExecuteUntilEvent ==
    /\ mode = "idle"
    /\ callStart' = machine
    /\ retBefore' = ret
    /\ \E received \in GetMaybeChoices(machine), overflow_panics \in OverflowChoices(machine) :
          \E r \in {execute_until_event_iteration(machine, received, overflow_panics)} :
              Iterate("execute_until_event", r, received)

\* a further iteration of the loop of execute_until_event
ExecuteUntilEventLoop ==
    /\ mode = "execute_until_event"
    /\ UNCHANGED <<callStart, retBefore>>
    /\ \E received \in GetMaybeChoices(machine), overflow_panics \in OverflowChoices(machine) :
          \E r \in {execute_until_event_iteration(machine, received, overflow_panics)} :
              Iterate("execute_until_event", r, received)

Next ==
    \/ GiveInput
    \/ Execute
    \/ ExecuteLoop
    \/ ExecuteUntilEvent
    \/ ExecuteUntilEventLoop

Spec == Init /\ [][Next]_vars

----------------------------------------------------------------------------
(* The memory alone: store and load_position applied to a freshly loaded   *)
(* machine, with any destination parameter and value.                      *)

MemoryImages == {<<1, 2, 3>>, <<99>>, <<104, 5, 109, 3, 99>>}
StoreVals == {0, 7}
\* raw destination parameters: the first and last word of the program, the
\* first address beyond it, 10 times its length, and the address 2^64 - 1
StoreParams(m) == {0, Len(m.memory) - 1, Len(m.memory), 10 * Len(m.memory), -1}
Modes == {"Position", "Immediate", "Relative"}

InitMemory ==
    /\ \E program \in MemoryImages : machine = from_memory(program)
    /\ mode = "idle"
    /\ ret = "none"
    /\ lastCall = "none"
    /\ callStart = machine
    /\ pre = machine
    /\ executed = NoInstruction
    /\ retBefore = "none"
    /\ given = 0
    /\ wrapped = FALSE
    /\ stored = EmptyMap
    /\ NoDevices
    /\ NoDrivers

\* IntcodeProgram::store(p, value)
Store ==
    /\ \E param \in StoreParams(machine), pmode \in Modes, value \in StoreVals :
          /\ machine' = store(machine, Parameter(param, pmode), value)
          /\ LET location == IF pmode = "Relative"
                              THEN param + machine.relative_base ELSE param
             IN stored' = [a \in DOMAIN stored \cup {location} |->
                              IF a = location THEN value ELSE stored[a]]
    /\ UNCHANGED <<mode, ret, lastCall, callStart, pre, executed, retBefore, given, wrapped>>
    /\ UNCHANGED ioVars
    /\ UNCHANGED extVars

NextMemory == Store

SpecMemory == InitMemory /\ [][NextMemory]_vars

----------------------------------------------------------------------------
(* The devices alone: a consumer thread holding an input device (a         *)
(* DefaultInputDevice, or a ChannelInputDevice on the Receiver of a        *)
(* channel) and a producer thread holding the ChannelOutputDevice on the   *)
(* Sender of that channel.  Each device operation is one step; the steps   *)
(* of the two threads interleave freely, and either thread may drop its    *)
(* device, and with it its end of the channel, at any time.                *)

\* the variables of the machine and its caller
vmVars == <<machine, mode, ret, lastCall, callStart, pre, executed, retBefore, given,
            wrapped, stored>>

\* values put locally into the input device
MaxPuts == 2
\* values the producer puts into its output device
MaxSends == 3
\* values the consumer gets out of its input device
MaxGets == 5

\* the values are told apart by where and when they were put
LocalValue(n) == 10 + n
OutputValue(n) == 20 + n

InitDevices ==
    /\ machine = from_memory(<<99>>)
    /\ mode = "idle"
    /\ ret = "none"
    /\ lastCall = "none"
    /\ callStart = machine
    /\ pre = machine
    /\ executed = NoInstruction
    /\ retBefore = "none"
    /\ given = 0
    /\ wrapped = FALSE
    /\ stored = EmptyMap
    /\ channel = <<>>
    /\ \E kind \in {"Default", "Channel"} :
          /\ inputDevice = [kind |-> kind, buffer |-> <<>>]
          \* a DefaultInputDevice has no channel, and no producer
          /\ senderAlive = (kind = "Channel")
    /\ receiverAlive = TRUE
    /\ outputDevice = [buffer |-> <<>>]
    /\ log = EmptyLog
    /\ NoDrivers

\* the log after an operation of the input device
InputLogged(op, ok, val, from) ==
    [log EXCEPT !.got = IF ok /\ op # "put"
                        THEN Append(@, [val |-> val, from |-> from]) ELSE @,
                !.put = IF op = "put" THEN Append(@, val) ELSE @,
                !.last = [op |-> op, ok |-> ok, val |-> val, from |-> from,
                          buffer |-> inputDevice.buffer, channel |-> channel]]

\* InputDevice::put on the consumer's device
InputPut ==
    /\ receiverAlive
    /\ Len(log.put) < MaxPuts
    /\ LET v == LocalValue(Len(log.put) + 1)
       IN /\ inputDevice' =
                [inputDevice EXCEPT !.buffer = IF inputDevice.kind = "Channel"
                                               THEN channel_input_put(@, v)
                                               ELSE input_put(@, v)]
          /\ log' = InputLogged("put", TRUE, v, "none")
    /\ UNCHANGED <<channel, senderAlive, receiverAlive, outputDevice>>
    /\ UNCHANGED vmVars
    /\ UNCHANGED extVars

\* InputDevice::get on the consumer's device; on a ChannelInputDevice with
\* an empty buffer the call returns only once recv does
InputGet ==
    /\ receiverAlive
    /\ Len(log.got) < MaxGets
    /\ IF inputDevice.kind = "Channel"
       THEN /\ Len(inputDevice.buffer) > 0 \/ recv_returns(channel, senderAlive)
            /\ \E received \in {recv(channel)} :
               \E got \in {channel_input_get(inputDevice.buffer, received)} :
                  /\ inputDevice' = [inputDevice EXCEPT !.buffer = got.buffer]
                  /\ channel' = IF got.from_channel THEN received.queue ELSE channel
                  /\ log' = InputLogged("get", got.ok, got.val,
                                        CASE got.from_channel -> "channel"
                                          [] got.ok -> "buffer"
                                          [] OTHER -> "none")
       ELSE /\ \E console \in IF Len(inputDevice.buffer) = 0
                              THEN ConsoleOutcomes
                              ELSE {[ok |-> FALSE, val |-> 0]} :
               \E got \in {input_get(inputDevice.buffer, console)} :
                  /\ inputDevice' = [inputDevice EXCEPT !.buffer = got.buffer]
                  /\ log' = InputLogged("get", got.ok, got.val,
                                        CASE Len(inputDevice.buffer) > 0 -> "buffer"
                                          [] got.ok -> "console"
                                          [] OTHER -> "none")
            /\ UNCHANGED channel
    /\ UNCHANGED <<senderAlive, receiverAlive, outputDevice>>
    /\ UNCHANGED vmVars
    /\ UNCHANGED extVars

\* InputDevice::get_maybe on the consumer's device
InputGetMaybe ==
    /\ receiverAlive
    /\ Len(log.got) < MaxGets
    /\ IF inputDevice.kind = "Channel"
       THEN \E received \in {try_recv(channel)} :
            \E got \in {channel_input_get_maybe(inputDevice.buffer, received)} :
               /\ inputDevice' = [inputDevice EXCEPT !.buffer = got.buffer]
               /\ channel' = IF got.from_channel THEN received.queue ELSE channel
               /\ log' = InputLogged("get_maybe", got.some, got.val,
                                     CASE got.from_channel -> "channel"
                                       [] got.some -> "buffer"
                                       [] OTHER -> "none")
       ELSE /\ \E got \in {input_get_maybe(inputDevice.buffer)} :
               /\ inputDevice' = [inputDevice EXCEPT !.buffer = got.buffer]
               /\ log' = InputLogged("get_maybe", got.some, got.val,
                                     IF got.some THEN "buffer" ELSE "none")
            /\ UNCHANGED channel
    /\ UNCHANGED <<senderAlive, receiverAlive, outputDevice>>
    /\ UNCHANGED vmVars
    /\ UNCHANGED extVars

\* the consumer drops its input device: the Receiver goes with it
DropReceiver ==
    /\ receiverAlive
    /\ receiverAlive' = FALSE
    /\ UNCHANGED <<channel, senderAlive, inputDevice, outputDevice, log>>
    /\ UNCHANGED vmVars
    /\ UNCHANGED extVars

\* OutputDevice::put on the producer's ChannelOutputDevice
OutputPut ==
    /\ senderAlive
    /\ Len(log.output) < MaxSends
    /\ LET v == OutputValue(Len(log.output) + 1)
       IN \E sent \in {send(channel, receiverAlive, v)} :
             /\ channel' = sent.queue
             /\ outputDevice' =
                   [outputDevice EXCEPT !.buffer = channel_output_put(@, v, sent)]
             /\ log' = [log EXCEPT !.output = Append(@, v),
                                   !.last = [op |-> "output_put", ok |-> sent.ok,
                                             val |-> v, from |-> "none",
                                             buffer |-> outputDevice.buffer,
                                             channel |-> channel]]
    /\ UNCHANGED <<senderAlive, receiverAlive, inputDevice>>
    /\ UNCHANGED vmVars
    /\ UNCHANGED extVars

\* OutputDevice::get on the producer's ChannelOutputDevice
OutputGet ==
    /\ senderAlive
    /\ \E got \in {output_get(outputDevice.buffer)} :
          /\ outputDevice' = [outputDevice EXCEPT !.buffer = got.buffer]
          /\ log' = [log EXCEPT !.fetched = IF got.some THEN Append(@, got.val) ELSE @,
                                !.last = [op |-> "output_get", ok |-> got.some,
                                          val |-> got.val,
                                          from |-> IF got.some THEN "buffer" ELSE "none",
                                          buffer |-> outputDevice.buffer,
                                          channel |-> channel]]
    /\ UNCHANGED <<channel, senderAlive, receiverAlive, inputDevice>>
    /\ UNCHANGED vmVars
    /\ UNCHANGED extVars

\* the producer drops its output device: the Sender goes with it
DropSender ==
    /\ senderAlive
    /\ senderAlive' = FALSE
    /\ UNCHANGED <<channel, receiverAlive, inputDevice, outputDevice, log>>
    /\ UNCHANGED vmVars
    /\ UNCHANGED extVars

NextDevices ==
    \/ InputPut
    \/ InputGet
    \/ InputGetMaybe
    \/ DropReceiver
    \/ OutputPut
    \/ OutputGet
    \/ DropSender

SpecDevices == InitDevices /\ [][NextDevices]_vars

----------------------------------------------------------------------------
(* A machine whose input device was replaced at construction, by a fresh   *)
(* DefaultInputDevice or by a ChannelInputDevice on the Receiver of a      *)
(* channel, driven by its caller through give_input, execute and           *)
(* execute_until_event, while a producer thread holding a                  *)
(* ChannelOutputDevice on the Sender puts values and may drop its device.  *)

\* IntcodeProgram::replace_input with a fresh device of the given kind
replace_input(m, kind) == [m EXCEPT !.input_device = kind, !.input = <<>>]

ChannelPrograms ==
    { <<3, 0, 3, 1, 99>>,
      <<3, 50, 4, 50, 104, 7, 99>>,
      <<3, 7, 1005, 7, 0, 99>>,
      <<109, 1, 203, 8, 99>> }

InitChannelMachine ==
    /\ \E program \in ChannelPrograms, kind \in {"Default", "Channel"} :
          /\ machine = replace_input(from_memory(program), kind)
          \* a DefaultInputDevice has no channel, and no producer
          /\ senderAlive = (kind = "Channel")
    /\ mode = "idle"
    /\ ret = "none"
    /\ lastCall = "none"
    /\ callStart = machine
    /\ pre = machine
    /\ executed = NoInstruction
    /\ retBefore = "none"
    /\ given = 0
    /\ wrapped = FALSE
    /\ stored = EmptyMap
    /\ channel = <<>>
    /\ receiverAlive = TRUE
    /\ inputDevice = [kind |-> machine.input_device, buffer |-> <<>>]
    /\ outputDevice = [buffer |-> <<>>]
    /\ log = EmptyLog
    /\ NoDrivers

NextChannelMachine ==
    \/ GiveInput
    \/ Execute
    \/ ExecuteLoop
    \/ ExecuteUntilEvent
    \/ ExecuteUntilEventLoop
    \/ OutputPut
    \/ DropSender

SpecChannelMachine == InitChannelMachine /\ [][NextChannelMachine]_vars

----------------------------------------------------------------------------
(* The machine with its default devices, whose caller also takes the       *)
(* output out of the device with get_output and get_all_output.            *)

OutputPrograms ==
    { <<104, 5, 109, 3, 204, -3, 99>>,
      <<3, 50, 4, 50, 104, 7, 99>>,
      <<4, 0, 104, 7, 4, 1, 99>>,
      <<104, 1, 98>>,
      <<99>> }

InitOutput ==
    /\ \E program \in OutputPrograms : machine = from_memory(program)
    /\ mode = "idle"
    /\ ret = "none"
    /\ lastCall = "none"
    /\ callStart = machine
    /\ pre = machine
    /\ executed = NoInstruction
    /\ retBefore = "none"
    /\ given = 0
    /\ wrapped = FALSE
    /\ stored = EmptyMap
    /\ NoDevices
    /\ NoDrivers

\* IntcodeProgram::get_output
GetOutput ==
    /\ mode = "idle"
    /\ \E got \in {output_get(machine.output)} :
          /\ machine' = [machine EXCEPT !.output = got.buffer]
          /\ log' = [log EXCEPT !.fetched = IF got.some THEN Append(@, got.val) ELSE @,
                                !.last = [op |-> "get_output", ok |-> got.some,
                                          val |-> got.val,
                                          from |-> IF got.some THEN "buffer" ELSE "none",
                                          buffer |-> machine.output,
                                          channel |-> channel]]
    /\ UNCHANGED <<mode, ret, lastCall, callStart, pre, executed, retBefore, given, wrapped,
                   stored>>
    /\ UNCHANGED <<channel, senderAlive, receiverAlive, inputDevice, outputDevice>>
    /\ UNCHANGED extVars

\* IntcodeProgram::get_all_output
GetAllOutput ==
    /\ mode = "idle"
    /\ \E all \in {get_all_output(machine.output)} :
          /\ machine' = [machine EXCEPT !.output = all.buffer]
          /\ log' = [log EXCEPT !.fetched = @ \o all.out,
                                !.all = all.out,
                                !.last = [op |-> "get_all_output", ok |-> TRUE,
                                          val |-> Len(all.out), from |-> "buffer",
                                          buffer |-> machine.output,
                                          channel |-> channel]]
    /\ UNCHANGED <<mode, ret, lastCall, callStart, pre, executed, retBefore, given, wrapped,
                   stored>>
    /\ UNCHANGED <<channel, senderAlive, receiverAlive, inputDevice, outputDevice>>
    /\ UNCHANGED extVars

NextOutput ==
    \/ GiveInput
    \/ Execute
    \/ ExecuteLoop
    \/ ExecuteUntilEvent
    \/ ExecuteUntilEventLoop
    \/ GetOutput
    \/ GetAllOutput

SpecOutput == InitOutput /\ [][NextOutput]_vars

----------------------------------------------------------------------------
(* The machine run on given programs that read no input, by either entry   *)
(* point, with no bound on what they compute other than their own halting. *)

\* copies itself to the output
Quine == <<109, 1, 204, -1, 1001, 100, 1, 100, 1008, 100, 16, 101, 1006, 101, 0, 99>>
\* 30 + 40 stored at 3, then 70 * 50 stored at 0
Canonical == <<1, 9, 10, 3, 2, 3, 11, 0, 99, 30, 40, 50>>

ScenarioPrograms == {Quine, Canonical}

InitScenarios ==
    /\ \E program \in ScenarioPrograms : machine = from_memory(program)
    /\ mode = "idle"
    /\ ret = "none"
    /\ lastCall = "none"
    /\ callStart = machine
    /\ pre = machine
    /\ executed = NoInstruction
    /\ retBefore = "none"
    /\ given = 0
    /\ wrapped = FALSE
    /\ stored = EmptyMap
    /\ NoDevices
    /\ NoDrivers

\* execute is called, or goes on with its loop: one iteration
ScenarioExecute ==
    /\ mode \in {"idle", "execute"}
    /\ callStart' = IF mode = "idle" THEN machine ELSE callStart
    /\ retBefore' = IF mode = "idle" THEN ret ELSE retBefore
    /\ GetReturns(machine)
    /\ \E console \in GetChoices(machine) :
          \E r \in {execute_iteration(machine, console, TRUE)} :
              IterationEffect("execute", r, console)

\* execute_until_event is called, or goes on with its loop: one iteration
ScenarioExecuteUntilEvent ==
    /\ mode \in {"idle", "execute_until_event"}
    /\ callStart' = IF mode = "idle" THEN machine ELSE callStart
    /\ retBefore' = IF mode = "idle" THEN ret ELSE retBefore
    /\ \E received \in GetMaybeChoices(machine) :
          \E r \in {execute_until_event_iteration(machine, received, TRUE)} :
              IterationEffect("execute_until_event", r, received)

NextScenarios ==
    \/ ScenarioExecute
    \/ ScenarioExecuteUntilEvent

SpecScenarios == InitScenarios /\ [][NextScenarios]_vars

\* a call that is inside its loop goes on with it
SpecScenariosFair ==
    /\ SpecScenarios
    /\ WF_vars(ScenarioExecute)
    /\ WF_vars(ScenarioExecuteUntilEvent)

----------------------------------------------------------------------------
(* Words beyond 32 bits.  An i64 that the model's integers cannot hold is  *)
(* written as its four 16-bit limbs, most significant first, in two's      *)
(* complement; the machine only moves such a word (memory, Parameter,      *)
(* load of an immediate, put, get), it computes nothing from it.           *)

Pow2_50 == <<4, 0, 0, 0>>               \* 1125899906842624
WideVals == {Pow2_50,
             <<4, 0, 0, 1>>,             \* 2^50 + 1
             <<65532, 0, 0, 0>>,         \* -2^50
             <<32767, 65535, 65535, 65535>>}  \* i64::MAX

MaxWideOutputs == 3

\* Output of an immediate
OutputImmediate(w) == <<104, w>>

RECURSIVE WideProgramsOf(_)
WideProgramsOf(n) ==
    IF n = 0 THEN {<<>>}
    ELSE {OutputImmediate(w) \o rest : w \in WideVals, rest \in WideProgramsOf(n - 1)}

\* 104,w,...,99 with one to MaxWideOutputs outputs
WidePrograms ==
    {body \o <<99>> : body \in UNION {WideProgramsOf(n) : n \in 1..MaxWideOutputs}}

\* the words a program of WidePrograms outputs
Immediates(program) == [i \in 1..((Len(program) - 1) \div 2) |-> program[2 * i]]

InitWide ==
    /\ \E program \in WidePrograms : machine = from_memory(program)
    /\ mode = "idle"
    /\ ret = "none"
    /\ lastCall = "none"
    /\ callStart = machine
    /\ pre = machine
    /\ executed = NoInstruction
    /\ retBefore = "none"
    /\ given = 0
    /\ wrapped = FALSE
    /\ stored = EmptyMap
    /\ NoDevices
    /\ NoDrivers

SpecWide == InitWide /\ [][NextScenarios]_vars

----------------------------------------------------------------------------
(* Two machines in a pipeline, as run_amplifier_chain connects and runs    *)
(* them: the output device of machine A (machine) is a ChannelOutputDevice *)
(* whose channel feeds the ChannelInputDevice of machine B (twin); each    *)
(* machine is moved into a thread of its own that calls execute() and      *)
(* unwraps what it returns; the thread of the last machine then publishes  *)
(* output.get().  A machine is dropped, and its end of the channel with    *)
(* it, when its thread ends or panics.                                     *)

\* programs that read one input, output it plus one, and halt
Increment == <<3, 0, 1001, 0, 1, 0, 4, 0, 99>>
IncrementBeyond == <<3, 9, 101, 1, 9, 9, 4, 9, 99>>
IncrementRelative == <<109, 20, 203, 0, 22101, 1, 0, 0, 204, 0, 99>>
PipelinePrograms == {Increment, IncrementBeyond, IncrementRelative}

\* what the first machine is started with
StartInputs == {0, 7}

NoResult == [some |-> FALSE, val |-> 0]

InitPipeline ==
    /\ \E programA \in PipelinePrograms, programB \in PipelinePrograms, start \in StartInputs :
          /\ machine = [from_memory(programA) EXCEPT !.input = input_put(@, start)]
          /\ twin = replace_input(from_memory(programB), "Channel")
          /\ threads = [a |-> "executing", b |-> "executing", start |-> start,
                        result |-> NoResult]
    /\ mode = "idle"
    /\ ret = "none"
    /\ lastCall = "none"
    /\ callStart = machine
    /\ pre = machine
    /\ executed = NoInstruction
    /\ retBefore = "none"
    /\ given = 1
    /\ wrapped = FALSE
    /\ stored = EmptyMap
    /\ channel = <<>>
    /\ senderAlive = TRUE
    /\ receiverAlive = TRUE
    /\ inputDevice = [kind |-> "Default", buffer |-> <<>>]
    /\ outputDevice = [buffer |-> <<>>]
    /\ log = EmptyLog
    /\ network = <<>>
    /\ loader = <<>>

\* where a thread is after an iteration of execute that ended with ret
ThreadAfter(iteration_ret) ==
    CASE iteration_ret = "pending" -> "executing"
      [] iteration_ret = "Ok" -> "returned"
      [] OTHER -> "panicked"

\* the iteration r of a machine whose output device is a ChannelOutputDevice:
\* self.output.put(v) sends v on the channel and keeps it only when the send
\* fails.  The machine and the messages in flight afterwards.
channel_output_iteration(before, r, queue, receiver_alive) ==
    IF r.instr.opcode = 4
    THEN LET v == load(before, r.instr.params[1])
             sent == send(queue, receiver_alive, v)
         IN [m |-> [r.m EXCEPT !.output = channel_output_put(before.output, v, sent)],
             queue |-> sent.queue]
    ELSE [m |-> r.m, queue |-> queue]

\* the thread of A: one iteration of execute()
PipelineA ==
    /\ threads.a = "executing"
    /\ \E console \in GetChoices(machine) :
          \E r \in {execute_iteration(machine, console, TRUE)} :
              \E o \in {channel_output_iteration(machine, r, channel, receiverAlive)} :
                  /\ machine' = o.m
                  /\ channel' = o.queue
                  /\ threads' = [threads EXCEPT !.a = ThreadAfter(r.ret)]
                  /\ senderAlive' = (senderAlive /\ ThreadAfter(r.ret) # "panicked")
    /\ UNCHANGED <<mode, ret, lastCall, callStart, pre, executed, retBefore, given, wrapped, stored>>
    /\ UNCHANGED <<receiverAlive, inputDevice, outputDevice, log, twin, network, loader>>

\* the thread of B: one iteration of execute(), which waits in recv while
\* nothing is in flight and A holds the sender
PipelineB ==
    /\ threads.b = "executing"
    /\ GetReturns(twin)
    /\ \E received \in GetChoices(twin) :
          \E r \in {execute_iteration(twin, received, TRUE)} :
              /\ twin' = r.m
              /\ channel' = IF InputTurnsToSource(twin) /\ received.ok
                            THEN received.queue ELSE channel
              /\ threads' = [threads EXCEPT !.b = ThreadAfter(r.ret)]
              /\ receiverAlive' = (receiverAlive /\ ThreadAfter(r.ret) # "panicked")
    /\ UNCHANGED <<mode, ret, lastCall, callStart, pre, executed, retBefore, given, wrapped, stored>>
    /\ UNCHANGED <<senderAlive, inputDevice, outputDevice, log, machine, network, loader>>

\* the thread of A ends after execute() returned Ok
ThreadEndA ==
    /\ threads.a = "returned"
    /\ threads' = [threads EXCEPT !.a = "ended"]
    /\ senderAlive' = FALSE
    /\ UNCHANGED <<machine, mode, ret, lastCall, callStart, pre, executed, retBefore, given,
                   wrapped, stored>>
    /\ UNCHANGED <<channel, receiverAlive, inputDevice, outputDevice, log, twin, network, loader>>

\* the thread of B, the last machine, publishes output.get().unwrap() and ends
ThreadEndB ==
    /\ threads.b = "returned"
    /\ LET o == output_get(twin.output)
       IN /\ twin' = [twin EXCEPT !.output = o.buffer]
          /\ threads' = [threads EXCEPT
                            !.b = IF o.some THEN "ended" ELSE "panicked",
                            !.result = [some |-> o.some, val |-> o.val]]
    /\ receiverAlive' = FALSE
    /\ UNCHANGED <<machine, mode, ret, lastCall, callStart, pre, executed, retBefore, given,
                   wrapped, stored>>
    /\ UNCHANGED <<channel, senderAlive, inputDevice, outputDevice, log, network, loader>>

NextPipeline ==
    \/ PipelineA
    \/ PipelineB
    \/ ThreadEndA
    \/ ThreadEndB

SpecPipeline == InitPipeline /\ [][NextPipeline]_vars

\* each thread is scheduled again and again
SpecPipelineFair ==
    /\ SpecPipeline
    /\ WF_vars(PipelineA)
    /\ WF_vars(PipelineB)
    /\ WF_vars(ThreadEndA)
    /\ WF_vars(ThreadEndB)

----------------------------------------------------------------------------
(* The switched network of aoc_23: the coordinating loop of run.  The      *)
(* program the machines run is the puzzle input, so a machine is taken by  *)
(* what execute_until_event can do on any program: consume some of the     *)
(* input it holds, oldest first, and return ProducedOutput with a value in *)
(* its output device, Exited (and Exited ever after), InputRequired (only  *)
(* with every input consumed), or an error.  NumMachines stands for the 50 *)
(* of the source.                                                          *)

NumMachines == 2
MaxPackets == 3         \* packets the machines ever begin to send, all together
NatAddr == 255
Machines == 0..(NumMachines - 1)
\* what a machine outputs, by the place in its packet: an address (of a
\* machine, of the NAT, or one nobody has), then X, then Y
OutVals == <<{0, NumMachines - 1, NatAddr, 50}, {3}, {1, 2}>>

NoPacket == [some |-> FALSE, val |-> <<0, 0>>]
SomePacket(x, y) == [some |-> TRUE, val |-> <<x, y>>]

\* the buffer once its j oldest values are consumed
consumed(buffer, j) == SubSeq(buffer, 1, Len(buffer) - j)

\* program.execute_until_event()? on any program: the event (or Err), the
\* machine afterwards, and the value ProducedOutput left in the output
\* device, one of vals
execute_until_event_outcomes(m, vals) ==
    IF m.exited
    THEN {[event |-> "Exited", m |-> m, val |-> 0]}
    ELSE {[event |-> "InputRequired", m |-> [m EXCEPT !.input = <<>>], val |-> 0]}
         \cup {[event |-> e, m |-> [m EXCEPT !.exited = (e = "Exited")], val |-> 0] :
                  e \in {"Exited", "Err"}}
         \cup {[event |-> "ProducedOutput", m |-> [m EXCEPT !.input = consumed(@, j)],
                val |-> v] : v \in vals, j \in 0..Len(m.input)}

\* lines 17-26: the locals of run when its loop begins
run_begins ==
    [idx |-> 0,
     idle |-> TRUE,
     programs |-> [i \in Machines |-> [input |-> input_put(<<>>, i), exited |-> FALSE]],
     buffered_out |-> [i \in Machines |-> <<>>],
     ready_packets |-> [i \in Machines |-> <<>>],
     nat_packet |-> NoPacket,
     last_nat_packet |-> NoPacket,
     status |-> "running"]

\* run has returned with status: its locals are gone
run_returned(status) ==
    [idx |-> 0,
     idle |-> TRUE,
     programs |-> [i \in Machines |-> [input |-> <<>>, exited |-> TRUE]],
     buffered_out |-> [i \in Machines |-> <<>>],
     ready_packets |-> [i \in Machines |-> <<>>],
     nat_packet |-> NoPacket,
     last_nat_packet |-> NoPacket,
     status |-> status]

\* lines 32-41 on the state n of the loop, the machine of the turn being m
input_required_newest_first(n, m) ==
    LET entry == n.ready_packets[n.idx]
    IN IF Len(entry) > 0
       THEN [n EXCEPT !.idle = FALSE,
                      !.ready_packets[n.idx] = Tail(entry),
                      !.programs[n.idx] =
                          [m EXCEPT !.input = input_put(input_put(@, Head(entry)[1]), Head(entry)[2])]]
       ELSE [n EXCEPT !.programs[n.idx] = [m EXCEPT !.input = input_put(@, -1)]]

\* lines 32-41 giving y before x
input_required_y_first(n, m) ==
    LET entry == n.ready_packets[n.idx]
    IN IF Len(entry) > 0
       THEN [n EXCEPT !.idle = FALSE,
                      !.ready_packets[n.idx] = pop_back(entry),
                      !.programs[n.idx] =
                          [m EXCEPT !.input = input_put(input_put(@, back(entry)[2]), back(entry)[1])]]
       ELSE [n EXCEPT !.programs[n.idx] = [m EXCEPT !.input = input_put(@, -1)]]

input_required(n, m) ==
    LET entry == n.ready_packets[n.idx]
    IN IF Len(entry) > 0
       THEN [n EXCEPT !.idle = FALSE,
                      !.ready_packets[n.idx] = pop_back(entry),
                      !.programs[n.idx] =
                          [m EXCEPT !.input = input_put(input_put(@, back(entry)[1]), back(entry)[2])]]
       ELSE [n EXCEPT !.programs[n.idx] = [m EXCEPT !.input = input_put(@, -1)]]

\* lines 42-57 with idle left as it was
produced_output_keeps_idle(n, m, v) ==
    LET out == Append(n.buffered_out[n.idx], v)
        polled == [n EXCEPT !.programs[n.idx] = m]
    IN IF Len(out) = 3
       THEN IF out[1] >= 0 /\ out[1] < NumMachines
            THEN [polled EXCEPT !.buffered_out[n.idx] = <<>>,
                                !.ready_packets[out[1]] = push_front(@, <<out[2], out[3]>>)]
            ELSE IF out[1] = NatAddr
            THEN [polled EXCEPT !.buffered_out[n.idx] = <<>>,
                                !.nat_packet = SomePacket(out[2], out[3])]
            ELSE run_returned("Err")
       ELSE [polled EXCEPT !.buffered_out[n.idx] = out]

\* lines 42-57 queueing (y, x) for a machine
produced_output_y_first(n, m, v) ==
    LET out == Append(n.buffered_out[n.idx], v)
        polled == [n EXCEPT !.idle = FALSE, !.programs[n.idx] = m]
    IN IF Len(out) = 3
       THEN IF out[1] >= 0 /\ out[1] < NumMachines
            THEN [polled EXCEPT !.buffered_out[n.idx] = <<>>,
                                !.ready_packets[out[1]] = push_front(@, <<out[3], out[2]>>)]
            ELSE IF out[1] = NatAddr
            THEN [polled EXCEPT !.buffered_out[n.idx] = <<>>,
                                !.nat_packet = SomePacket(out[2], out[3])]
            ELSE run_returned("Err")
       ELSE [polled EXCEPT !.buffered_out[n.idx] = out]

\* lines 42-57, v being what program.get_output().unwrap() returned
produced_output(n, m, v) ==
    LET out == Append(n.buffered_out[n.idx], v)
        polled == [n EXCEPT !.idle = FALSE, !.programs[n.idx] = m]
    IN IF Len(out) = 3
       THEN IF out[1] >= 0 /\ out[1] < NumMachines
            THEN [polled EXCEPT !.buffered_out[n.idx] = <<>>,
                                !.ready_packets[out[1]] = push_front(@, <<out[2], out[3]>>)]
            ELSE IF out[1] = NatAddr
            THEN [polled EXCEPT !.buffered_out[n.idx] = <<>>,
                                !.nat_packet = SomePacket(out[2], out[3])]
            ELSE run_returned("Err")
       ELSE [polled EXCEPT !.buffered_out[n.idx] = out]

\* lines 61-74 comparing the X of the two packets
end_of_round_compares_x(n) ==
    LET next_round == [n EXCEPT !.idx = 0, !.idle = TRUE]
    IN IF n.idle /\ n.nat_packet.some
       THEN IF n.last_nat_packet.some /\ n.nat_packet.val[1] = n.last_nat_packet.val[1]
            THEN run_returned("Ok")
            ELSE [next_round EXCEPT !.ready_packets[0] = push_front(@, n.nat_packet.val),
                                    !.last_nat_packet = n.nat_packet,
                                    !.nat_packet = NoPacket]
       ELSE next_round

\* lines 61-74, and `let mut idle = true` of the round that follows
end_of_round(n) ==
    LET next_round == [n EXCEPT !.idx = 0, !.idle = TRUE]
    IN IF n.idle /\ n.nat_packet.some
       THEN IF n.last_nat_packet.some /\ n.nat_packet.val[2] = n.last_nat_packet.val[2]
            THEN run_returned("Ok")
            ELSE [next_round EXCEPT !.ready_packets[0] = push_front(@, n.nat_packet.val),
                                    !.last_nat_packet = n.nat_packet,
                                    !.nat_packet = NoPacket]
       ELSE next_round

\* beside the locals of run: for each machine the packets ever queued for
\* it, in the order they were queued (arrived), and how many of them it was
\* handed (taken); how many packets the machines began to send (sent);
\* whether the round so far saw an output (produced) or a packet handed
\* over (handed); the event of the turn just made (event), with the
\* value get_output returned when it is ProducedOutput (val); and, until
\* the NAT has given a packet away, the first packet addressed to it
\* (first_nat); and the packet the NAT gave machine 0 last (nat_delivered)
NothingSeen ==
    [arrived |-> [i \in Machines |-> <<>>],
     first_nat |-> NoPacket,
     nat_delivered |-> NoPacket,
     event |-> "none",
     val |-> 0,
     sent |-> 0,
     taken |-> [i \in Machines |-> 0],
     produced |-> FALSE,
     handed |-> FALSE]

InitNetwork ==
    /\ network = [loop |-> run_begins, seen |-> NothingSeen]
    /\ \E program \in {<<99>>} : machine = from_memory(program)
    /\ mode = "idle"
    /\ ret = "none"
    /\ lastCall = "none"
    /\ callStart = machine
    /\ pre = machine
    /\ executed = NoInstruction
    /\ retBefore = "none"
    /\ given = 0
    /\ wrapped = FALSE
    /\ stored = EmptyMap
    /\ NoDevices
    /\ twin = from_memory(<<>>)
    /\ threads = <<>>
    /\ loader = <<>>

\* the turn of machine network.loop.idx is next
Polling == network.loop.status = "running" /\ network.loop.idx < NumMachines

otherVars == <<machine, mode, ret, lastCall, callStart, pre, executed, retBefore, given,
               wrapped, stored, channel, senderAlive, receiverAlive, inputDevice,
               outputDevice, log, twin, threads, loader>>

\* what the turn of machine n.idx can come to
Outcomes(n) ==
    execute_until_event_outcomes(n.programs[n.idx], OutVals[Len(n.buffered_out[n.idx]) + 1])

\* the next turn
next_turn(n) == IF n.status = "running" THEN [n EXCEPT !.idx = @ + 1] ELSE n

\* a turn that returns Exited
PollExited ==
    /\ Polling
    /\ LET n == network.loop
       IN \E o \in Outcomes(n) :
             /\ o.event = "Exited"
             /\ n.programs[n.idx].exited \/ n.buffered_out[n.idx] = <<>>
             /\ network' = [network EXCEPT
                               !.loop = next_turn([n EXCEPT !.programs[n.idx] = o.m]),
                               !.seen.event = o.event,
                               !.seen.val = 0]
    /\ UNCHANGED otherVars

\* a turn that returns InputRequired
PollInputRequired ==
    /\ Polling
    /\ LET n == network.loop
       IN \E o \in Outcomes(n) :
             /\ o.event = "InputRequired"
             /\ LET waiting == Len(network.seen.arrived[n.idx]) > network.seen.taken[n.idx]
                IN network' = [network EXCEPT
                                  !.loop = next_turn(input_required(n, o.m)),
                                  !.seen.event = o.event,
                                  !.seen.val = 0,
                                  !.seen.taken[n.idx] = IF waiting THEN @ + 1 ELSE @,
                                  !.seen.handed = @ \/ waiting]
    /\ UNCHANGED otherVars

\* the address the value v completes a packet for, or -1
CompletedAddress(n, v) ==
    LET out == Append(n.buffered_out[n.idx], v)
    IN IF Len(out) = 3 THEN out[1] ELSE -1

\* a turn that returns ProducedOutput
PollProducedOutput ==
    /\ Polling
    /\ LET n == network.loop
       IN \E o \in Outcomes(n) :
             /\ o.event = "ProducedOutput"
             /\ LET addr == CompletedAddress(n, o.val)
                    after == produced_output(n, o.m, o.val)
                    begins == n.buffered_out[n.idx] = <<>>
                IN /\ begins => network.seen.sent < MaxPackets
                   /\ network' =
                         IF after.status = "running"
                         THEN [network EXCEPT
                                  !.loop = next_turn(after),
                                  !.seen.event = o.event,
                                  !.seen.val = o.val,
                                  !.seen.arrived =
                                      IF addr \in Machines
                                      THEN [@ EXCEPT ![addr] =
                                               Append(@, <<n.buffered_out[n.idx][2], o.val>>)]
                                      ELSE @,
                                  !.seen.first_nat =
                                      IF addr = NatAddr /\ ~@.some /\ ~n.last_nat_packet.some
                                      THEN SomePacket(n.buffered_out[n.idx][2], o.val)
                                      ELSE @,
                                  !.seen.sent = IF begins THEN @ + 1 ELSE @,
                                  !.seen.produced = TRUE]
                         ELSE [loop |-> after, seen |-> NothingSeen]
    /\ UNCHANGED otherVars

\* a turn in which execute_until_event returns an error, which run returns
PollError ==
    /\ Polling
    /\ LET n == network.loop
       IN \E o \in Outcomes(n) :
             /\ o.event = "Err"
             /\ network' = [loop |-> run_returned("Err"), seen |-> NothingSeen]
    /\ UNCHANGED otherVars

\* lines 66-67: what this end of round prints as "Y value of first packet
\* sent to NAT", if it prints it
reports_first(n) ==
    IF n.idle /\ n.nat_packet.some /\ ~n.last_nat_packet.some
    THEN [some |-> TRUE, val |-> n.nat_packet.val[2]]
    ELSE [some |-> FALSE, val |-> 0]

\* lines 64-65: what this end of round prints as "First repeated Y value
\* sent by NAT", if it prints it
reports_repeated(n) ==
    IF /\ n.idle /\ n.nat_packet.some
       /\ n.last_nat_packet.some /\ n.nat_packet.val[2] = n.last_nat_packet.val[2]
    THEN [some |-> TRUE, val |-> n.nat_packet.val[2]]
    ELSE [some |-> FALSE, val |-> 0]

\* the NAT puts its packet into the queue of machine 0 at this end of round
Injects(n) ==
    /\ n.idle
    /\ n.nat_packet.some
    /\ ~(n.last_nat_packet.some /\ n.nat_packet.val[2] = n.last_nat_packet.val[2])

\* the end of a round: the NAT, and the next round begins
EndOfRound ==
    /\ network.loop.status = "running"
    /\ network.loop.idx = NumMachines
    /\ LET n == network.loop
           after == end_of_round(n)
       IN network' =
                IF after.status = "running"
                THEN [network EXCEPT
                         !.loop = after,
                         !.seen.event = "none",
                         !.seen.val = 0,
                         !.seen.arrived[0] = IF Injects(n) THEN Append(@, n.nat_packet.val) ELSE @,
                         !.seen.first_nat = IF Injects(n) THEN NoPacket ELSE @,
                         !.seen.nat_delivered = IF Injects(n) THEN n.nat_packet ELSE @,
                         !.seen.produced = FALSE,
                         !.seen.handed = FALSE]
                ELSE [loop |-> after, seen |-> NothingSeen]
    /\ UNCHANGED otherVars

NextNetwork ==
    \/ PollExited
    \/ PollInputRequired
    \/ PollProducedOutput
    \/ PollError
    \/ EndOfRound

SpecNetwork == InitNetwork /\ [][NextNetwork]_vars

----------------------------------------------------------------------------
(* Program loading: raw_to_memory and from_raw_input.  A text is the       *)
(* sequence of its chars.                                                  *)

Digits == {"0", "1", "2", "3", "4", "5", "6", "7", "8", "9"}
Whitespace == {" ", "\n", "\t", "\r"}

DigitValue(c) == CHOOSE v \in 0..9 : DigitChar[v + 1] = c

\* str::split(","): the items between the commas, at least one
RECURSIVE split(_)
split(raw) ==
    IF \E i \in 1..Len(raw) : raw[i] = ","
    THEN LET i == CHOOSE i \in 1..Len(raw) :
                      raw[i] = "," /\ \A j \in 1..(i - 1) : raw[j] # ","
         IN <<SubSeq(raw, 1, i - 1)>> \o split(SubSeq(raw, i + 1, Len(raw)))
    ELSE <<raw>>

RECURSIVE digits_value(_)
digits_value(item) ==
    IF item = <<>> THEN 0
    ELSE 10 * digits_value(SubSeq(item, 1, Len(item) - 1)) + DigitValue(item[Len(item)])

\* str::parse::<i64>: an optional sign, then one digit at least, and nothing
\* else (no whitespace); items are short of the overflow
parse_i64(item) ==
    LET signed == Len(item) > 0 /\ item[1] \in {"+", "-"}
        digits == IF signed THEN Tail(item) ELSE item
    IN IF Len(digits) > 0 /\ \A i \in 1..Len(digits) : digits[i] \in Digits
       THEN [ok |-> TRUE,
             val |-> IF signed /\ item[1] = "-" THEN -digits_value(digits)
                     ELSE digits_value(digits)]
       ELSE [ok |-> FALSE, val |-> 0]

\* raw_to_memory: Ok with the memory, or the error naming the first item that
\* is no integer
raw_to_memory(raw) ==
    LET items == split(raw)
        bad == {i \in 1..Len(items) : ~parse_i64(items[i]).ok}
    IN IF bad = {}
       THEN [ok |-> TRUE, memory |-> [i \in 1..Len(items) |-> parse_i64(items[i]).val],
             error |-> <<>>]
       ELSE [ok |-> FALSE, memory |-> <<>>,
             error |-> items[CHOOSE i \in bad : \A j \in bad : i <= j]]

\* from_raw_input: the machine loaded, or the error of raw_to_memory
from_raw_input(raw) ==
    LET r == raw_to_memory(raw)
    IN [ok |-> r.ok, program |-> from_memory(r.memory), error |-> r.error]

MaxItems == 2
Items == {<<"1">>, <<"-", "2">>, <<"+", "3">>, <<"1", "0", "9">>, <<"x">>, <<"-">>, <<>>}
Trailing == {<<>>, <<"\n">>, <<" ">>, <<"\r", "\n">>}

RECURSIVE Lists(_)
Lists(n) ==
    IF n = 1 THEN Items
    ELSE Lists(n - 1) \cup {list \o <<",">> \o item : list \in Lists(n - 1), item \in Items}

\* the texts loaded: up to MaxItems items between commas, then what may
\* end a file
Texts == {list \o trailing : list \in Lists(MaxItems), trailing \in Trailing}

NotLoaded == [ok |-> FALSE, memory |-> <<>>, error |-> <<>>]

InitLoader ==
    /\ \E raw \in Texts : loader = [raw |-> raw, called |-> "none", result |-> NotLoaded]
    /\ machine = from_memory(<<>>)
    /\ mode = "idle"
    /\ ret = "none"
    /\ lastCall = "none"
    /\ callStart = machine
    /\ pre = machine
    /\ executed = NoInstruction
    /\ retBefore = "none"
    /\ given = 0
    /\ wrapped = FALSE
    /\ stored = EmptyMap
    /\ NoDevices
    /\ twin = from_memory(<<>>)
    /\ threads = <<>>
    /\ network = <<>>

\* IntcodeProgram::raw_to_memory(&raw) is called
RawToMemory ==
    /\ loader.called = "none"
    /\ loader' = [loader EXCEPT !.called = "raw_to_memory", !.result = raw_to_memory(loader.raw)]
    /\ UNCHANGED <<machine, mode, ret, lastCall, callStart, pre, executed, retBefore, given,
                   wrapped, stored, twin, threads, network>>
    /\ UNCHANGED ioVars

\* IntcodeProgram::from_raw_input(&raw) is called
FromRawInput ==
    /\ loader.called = "none"
    /\ LET r == from_raw_input(loader.raw)
       IN /\ loader' = [loader EXCEPT
                           !.called = "from_raw_input",
                           !.result = [ok |-> r.ok, memory |-> r.program.memory, error |-> r.error]]
          /\ machine' = IF r.ok THEN r.program ELSE machine
    /\ UNCHANGED <<mode, ret, lastCall, callStart, pre, executed, retBefore, given,
                   wrapped, stored, twin, threads, network>>
    /\ UNCHANGED ioVars

NextLoader ==
    \/ RawToMemory
    \/ FromRawInput

SpecLoader == InitLoader /\ [][NextLoader]_vars

----------------------------------------------------------------------------
(* The disassembler. *)

\* one call of the closure of disassemble: None at the end of the loaded
\* image, the instruction decoded at ip with the words it is made of, or the
\* word at ip as data; `self.memory[i]` panics on a word beyond the image
disassemble_next(m) ==
    LET curr_ip == m.ip
        curr_opcode == RustRem(load_position(m, curr_ip), 100)
        dec == get_instruction(m)
    IN IF usize_ge(m.ip, Len(m.memory))
       THEN [item |-> "None", m |-> m]
       ELSE IF dec.status = "Ok"
       THEN IF curr_ip + instruction_param_length(curr_opcode).val >= Len(m.memory)
            THEN [item |-> "panic", m |-> dec.m]
            ELSE [item |-> "Instruction", m |-> dec.m]
       ELSE [item |-> "Data", m |-> [m EXCEPT !.ip = @ + 1]]

\* disassemble: the closure called until it returns None; the machine
\* afterwards, and whether the call returned or panicked
RECURSIVE disassemble(_)
disassemble(m) ==
    LET a == disassemble_next(m)
    IN CASE a.item = "None" -> [m |-> a.m, ret |-> "Ok"]
         [] a.item = "panic" -> [m |-> a.m, ret |-> "panic"]
         [] OTHER -> disassemble(a.m)

DisassemblePrograms ==
    { <<104, 5, 99>>,                       \* instructions only
      <<3, 0, 4, 0, 99>>,                   \* an input and an output
      <<1101, 1, 1, 7, 104, 0, 99, 0>>,     \* a data word that is no opcode
      <<1005, 6, 5, 104, 2, 99, 1>>,        \* a data word that reads as an Add
      <<104, 1, 104, 2, 1105, 1, 8, 3, 99>> \* a data word that reads as a LoadInput
    }

InitDisassemble ==
    /\ \E program \in DisassemblePrograms : machine = from_memory(program)
    /\ mode = "idle"
    /\ ret = "none"
    /\ lastCall = "none"
    /\ callStart = machine
    /\ pre = machine
    /\ executed = NoInstruction
    /\ retBefore = "none"
    /\ given = 0
    /\ wrapped = FALSE
    /\ stored = EmptyMap
    /\ NoDevices
    /\ NoDrivers

\* IntcodeProgram::disassemble is called
Disassemble ==
    /\ mode = "idle"
    /\ LET r == disassemble(machine)
       IN /\ machine' = r.m
          /\ ret' = r.ret
          /\ mode' = IF r.ret = "panic" THEN "panicked" ELSE "idle"
    /\ lastCall' = "disassemble"
    /\ callStart' = machine
    /\ pre' = machine
    /\ retBefore' = ret
    /\ UNCHANGED <<executed, given, wrapped, stored>>
    /\ UNCHANGED ioVars
    /\ UNCHANGED extVars

NextDisassemble ==
    \/ ScenarioExecute
    \/ ScenarioExecuteUntilEvent
    \/ Disassemble

SpecDisassemble == InitDisassemble /\ [][NextDisassemble]_vars

----------------------------------------------------------------------------
(* The two entry points side by side: the same program, with the same      *)
(* input given beforehand, is run by execute() on one machine (machine)    *)
(* and by execute_until_event(), called again until it returns Exited or   *)
(* fails, on another (twin).  The machines share nothing, so the second    *)
(* runs once the first has returned.  Both come from one build: overflow   *)
(* checks are on in both or in neither.                                    *)

MaxQueued == 2

\* the inputs given beforehand: up to MaxQueued values, in the order given
RECURSIVE QueuedInputs(_)
QueuedInputs(n) ==
    IF n = 0 THEN {<<>>}
    ELSE QueuedInputs(n - 1)
         \cup {Append(q, v) : q \in {q \in QueuedInputs(n - 1) : Len(q) = n - 1}, v \in InputVals}

\* give_input of each value in turn
RECURSIVE give_inputs(_, _)
give_inputs(m, values) ==
    IF values = <<>> THEN m
    ELSE give_inputs([m EXCEPT !.input = input_put(@, Head(values))], Tail(values))

InitModes ==
    /\ \E program \in Programs, values \in QueuedInputs(MaxQueued) :
          /\ machine = give_inputs(from_memory(program), values)
          /\ given = Len(values)
    /\ twin = machine
    /\ threads = [twin |-> "none"]
    /\ wrapped \in BOOLEAN
    /\ mode = "idle"
    /\ ret = "none"
    /\ lastCall = "none"
    /\ callStart = machine
    /\ pre = machine
    /\ executed = NoInstruction
    /\ retBefore = "none"
    /\ stored = EmptyMap
    /\ NoDevices
    /\ network = <<>>
    /\ loader = <<>>

\* execute() on machine, called once: an iteration of its loop.  With no
\* input left at a LoadInput it would turn to the console, which is not
\* part of the comparison.
ModesExecute ==
    /\ \/ mode = "idle" /\ lastCall = "none"
       \/ mode = "execute"
    /\ ~InputTurnsToSource(machine)
    /\ callStart' = IF mode = "idle" THEN machine ELSE callStart
    /\ retBefore' = IF mode = "idle" THEN ret ELSE retBefore
    /\ \E r \in {execute_iteration(machine, NoMessage, ~wrapped)} :
          Iterate("execute", r, NoMessage)

\* execute_until_event() on twin, called again after InputRequired and
\* ProducedOutput: an iteration of its loop
ModesExecuteUntilEvent ==
    /\ mode # "execute"
    /\ lastCall = "execute"
    /\ threads.twin \in {"none", "pending", "InputRequired", "ProducedOutput"}
    /\ \E r \in {execute_until_event_iteration(twin, NoMessage, ~wrapped)} :
          /\ WithinBounds(twin, r.m)
          /\ twin' = r.m
          /\ threads' = [twin |-> r.ret]
    /\ UNCHANGED <<machine, mode, ret, lastCall, callStart, pre, executed, retBefore, given,
                   wrapped, stored, network, loader>>
    /\ UNCHANGED ioVars

NextModes ==
    \/ ModesExecute
    \/ ModesExecuteUntilEvent

SpecModes == InitModes /\ [][NextModes]_vars

----------------------------------------------------------------------------
(* What the claims are stated with: the machine seen from outside. *)

\* the addresses at which two machines are compared: every address either
\* holds, and the address 10 times the program length
ProbeAddresses(m1, m2) ==
    Addresses(m1) \cup Addresses(m2) \cup {10 * Len(m1.memory)}

\* m2's memory is m1's, but for the value v at address addr
TapeSetAt(m1, m2, addr, v) ==
    \A a \in ProbeAddresses(m1, m2) \cup {addr} :
        load_position(m2, a) = IF a = addr THEN v ELSE load_position(m1, a)

SameTape(m1, m2) ==
    \A a \in ProbeAddresses(m1, m2) : load_position(m2, a) = load_position(m1, a)

\* the value of a source parameter of the instruction at m.ip
OperandValue(m, p) ==
    CASE p.mode = "Position" -> load_position(m, p.param)
      [] p.mode = "Immediate" -> p.param
      [] p.mode = "Relative" -> load_position(m, m.relative_base + p.param)

\* the address a Position or Relative destination parameter names
DestAddress(m, p) ==
    IF p.mode = "Relative" THEN m.relative_base + p.param ELSE p.param

\* the opcode of the word at ip
OpcodeAt(m) == RustRem(load_position(m, m.ip), 100)

----------------------------------------------------------------------------
\* C1: when execute_until_event returns InputRequired, memory, relative base
\* and ip are as they were before the LoadInput was decoded, ip pointing at
\* the LoadInput; and the first iteration of the next execute_until_event,
\* entered with a value supplied, executes that LoadInput: it takes the
\* oldest supplied value from the input device, stores it at the destination
\* and nowhere else, and leaves ip behind the LoadInput.
C1_SuspensionIsAtomic ==
    /\ ret = "InputRequired" =>
          /\ OpcodeAt(machine) = 3
          /\ machine.ip = pre.ip
          /\ machine.memory = pre.memory
          /\ machine.extended_memory = pre.extended_memory
          /\ machine.relative_base = pre.relative_base
    /\ ( /\ lastCall = "execute_until_event"
         /\ retBefore = "InputRequired"
         /\ pre = callStart
         /\ Len(callStart.input) > 0 ) =>
          /\ ret = "pending"
          /\ executed.opcode = 3
          /\ machine.input = pop_back(callStart.input)
          /\ machine.ip = callStart.ip + 2
          /\ machine.relative_base = callStart.relative_base
          /\ machine.output = callStart.output
          /\ executed.params[1].mode # "Immediate" =>
                TapeSetAt(callStart, machine,
                          DestAddress(callStart, executed.params[1]),
                          back(callStart.input))

\* a suspended LoadInput was resumed and has stored the supplied 11
C1_Witness ==
    /\ lastCall = "execute_until_event"
    /\ retBefore = "InputRequired"
    /\ pre = callStart
    /\ callStart.input = <<11>>
    /\ ret = "pending"
    /\ executed.opcode = 3
    /\ executed.params[1].mode = "Relative"
    /\ load_position(machine, DestAddress(callStart, executed.params[1])) = 11

----------------------------------------------------------------------------
\* C2: InputRequired is returned by execute_until_event only, and exactly when
\* the instruction reached is a LoadInput and the input device has nothing;
\* execute returns only Ok or an error, and at a LoadInput with nothing
\* buffered it reads the console instead: it stores what the console gave
\* and goes on, or fails.
C2_SuspensionOnlyAtLoadInput ==
    /\ ret = "InputRequired" =>
          /\ lastCall = "execute_until_event"
          /\ OpcodeAt(pre) = 3
          /\ executed.opcode = 3
          /\ pre.input = <<>>
    /\ ( /\ lastCall = "execute_until_event"
         /\ OpcodeAt(pre) = 3
         /\ pre.input = <<>>
         /\ ret # "panic" ) => ret = "InputRequired"
    /\ lastCall = "execute" =>
          ret \in {"pending", "Ok", "Err(Invalid opcode)", "Err(input)", "panic"}
    /\ ( /\ lastCall = "execute"
         /\ OpcodeAt(pre) = 3
         /\ pre.input = <<>>
         /\ ret \notin {"panic", "Err(input)"} ) =>
          /\ ret = "pending"
          /\ machine.ip = pre.ip + 2
          /\ executed.params[1].mode # "Immediate" =>
                \E v \in ConsoleVals :
                    TapeSetAt(pre, machine, DestAddress(pre, executed.params[1]), v)

\* execute_until_event ran some instructions, reached a LoadInput with no
\* input and returned InputRequired
C2_Witness ==
    /\ ret = "InputRequired"
    /\ pre # callStart
    /\ pre.relative_base # 0
    /\ OpcodeAt(machine) = 3

----------------------------------------------------------------------------
\* C3: an execute_until_event call that returns ProducedOutput executed an
\* Output last; since the call was entered the output device got exactly one
\* value, that of the Output's parameter, and ip is behind the Output.  After
\* an Add, Multiply, LessThan, Equals, jump, AdjustRelativeBase or satisfied
\* LoadInput the call is still in its loop and has output nothing.
C3_OutputReturnsOnce ==
    /\ ret = "ProducedOutput" =>
          /\ lastCall = "execute_until_event"
          /\ OpcodeAt(pre) = 4
          /\ executed.opcode = 4
          /\ machine.output =
                <<OperandValue(pre, executed.params[1])>> \o callStart.output
          /\ machine.ip = pre.ip + 2
    /\ ( /\ lastCall = "execute_until_event"
         /\ ret # "panic"
         /\ \/ OpcodeAt(pre) \in {1, 2, 5, 6, 7, 8, 9}
            \/ OpcodeAt(pre) = 3 /\ pre.input # <<>> ) =>
          /\ ret = "pending"
          /\ mode = "execute_until_event"
          /\ machine.output = callStart.output

\* a second call ran some instructions and then returned the second output
C3_Witness ==
    /\ ret = "ProducedOutput"
    /\ retBefore = "ProducedOutput"
    /\ pre # callStart
    /\ Len(machine.output) = 2
    /\ executed.params[1].mode = "Relative"

----------------------------------------------------------------------------
\* C4: a call of execute_until_event made when the last call returned Exited
\* returns Exited and leaves the machine (memory, ip, relative base and both
\* devices) as it was.
C4_ExitedIsTerminal ==
    [][ ( /\ ret = "Exited"
          /\ lastCall' = "execute_until_event"
          /\ given' = given )
        => (ret' = "Exited" /\ machine' = machine) ]_vars

\* Exited was returned twice in a row, the second time with input waiting
\* and outputs kept
C4_Witness ==
    /\ ret = "Exited"
    /\ retBefore = "Exited"
    /\ lastCall = "execute_until_event"
    /\ machine = callStart
    /\ Len(machine.input) > 0
    /\ Len(machine.output) > 0

----------------------------------------------------------------------------
\* C5: after any sequence of stores, load_position of a non-negative address
\* returns the value last stored to it, else the word of the loaded program
\* if the address is inside it, else 0 (so a store changes no other
\* address); the addresses read include 10 times the program length.
C5_MemoryIsInfiniteTape ==
    \A a \in 0..(10 * Len(callStart.memory) + 1) :
        load_position(machine, a) =
            IF a \in DOMAIN stored THEN stored[a]
            ELSE IF a < Len(callStart.memory) THEN callStart.memory[a + 1]
            ELSE 0

\* 7 was stored at 10 times the program length and reads back, after other
\* stores inside and beyond the program and at the top of the address space
C5_Witness ==
    LET far == 10 * Len(callStart.memory)
    IN /\ far \in DOMAIN stored
       /\ stored[far] = 7
       /\ load_position(machine, far) = 7
       /\ {0, Len(callStart.memory), -1} \subseteq DOMAIN stored
       /\ load_position(machine, far + 1) = 0

----------------------------------------------------------------------------
\* the k-th mode digit of the instruction word w
ModeDigit(w, k) == (w \div (10 ^ (k + 1))) % 10

\* C6: a non-negative word w with a known opcode decodes to the opcode
\* w mod 100, with 3 parameters for 1, 2, 7, 8, 1 for 3, 4, 9, 2 for 5, 6
\* and none for 99; the k-th parameter is the word at ip + k and its mode is
\* Position, Immediate or Relative as the digit (w div 10^(k+1)) mod 10 is
\* 0, 1 or 2 (0, so Position, beyond the leading digit of w).
C6_Decoding ==
    LET w == load_position(pre, pre.ip)
    IN ( /\ lastCall # "none"
         /\ ret # "panic"
         /\ w >= 0
         /\ (w % 100) \in Opcodes ) =>
          /\ executed.opcode = w % 100
          /\ Len(executed.params) = ParamCount[w % 100]
          /\ \A k \in 1..Len(executed.params) :
                /\ executed.params[k].param = load_position(pre, pre.ip + k)
                /\ ModeDigit(w, k) = 0 => executed.params[k].mode = "Position"
                /\ ModeDigit(w, k) = 1 => executed.params[k].mode = "Immediate"
                /\ ModeDigit(w, k) = 2 => executed.params[k].mode = "Relative"

\* 1002 was decoded: Multiply, Position, Immediate, and Position for the
\* third parameter, whose digit the word does not have
C6_Witness ==
    /\ lastCall # "none"
    /\ load_position(pre, pre.ip) = 1002
    /\ executed.opcode = 2
    /\ executed.params[1].mode = "Position"
    /\ executed.params[2].mode = "Immediate"
    /\ executed.params[3].mode = "Position"

----------------------------------------------------------------------------
\* C7: an iteration of execute or of execute_until_event that finds a word
\* with an opcode outside 1..9, 99 at ip returns the Invalid opcode error and
\* leaves the whole machine as it was (so the next call finds the same word
\* and fails again); the error is returned for no other word.
C7_InvalidOpcodeIsFatal ==
    [][ given' = given =>
          /\ OpcodeAt(machine) \notin Opcodes =>
                (ret' = "Err(Invalid opcode)" /\ machine' = machine)
          /\ ret' = "Err(Invalid opcode)" => OpcodeAt(machine) \notin Opcodes ]_vars

\* the error was returned twice in a row, by execute_until_event and then by
\* execute, after the machine had run into a word that is no instruction
C7_Witness ==
    /\ ret = "Err(Invalid opcode)"
    /\ retBefore = "Err(Invalid opcode)"
    /\ lastCall = "execute"
    /\ machine = callStart
    /\ machine.ip > 0
    /\ Len(machine.output) > 0

----------------------------------------------------------------------------
\* what Add, Multiply, LessThan and Equals compute from their two sources
Combine(op, o1, o2) ==
    CASE op = 1 -> o1 + o2
      [] op = 2 -> o1 * o2
      [] op = 7 -> IF o1 < o2 THEN 1 ELSE 0
      [] op = 8 -> IF o1 = o2 THEN 1 ELSE 0

\* the last iteration executed an Add, Multiply, LessThan or Equals with a
\* Position or Relative destination
ExecutedArithmetic ==
    /\ lastCall # "none"
    /\ executed.opcode \in {1, 2, 7, 8}
    /\ executed.params[3].mode # "Immediate"

\* its effect: the memory before, but for the combination of the two source
\* values, read before, at the destination
ArithmeticEffect ==
    LET p == executed.params
    IN TapeSetAt(pre, machine, DestAddress(pre, p[3]),
                 Combine(executed.opcode, OperandValue(pre, p[1]), OperandValue(pre, p[2])))

\* C8: Add, Multiply, LessThan and Equals store at the destination address
\* the sum, the product, 1 if o1 < o2 else 0, 1 if o1 = o2 else 0 of their
\* source values, read according to their modes from the memory as it was
\* before the instruction; no other address changes, nor the relative base.
C8_Arithmetic ==
    ExecutedArithmetic =>
        /\ ArithmeticEffect
        /\ machine.relative_base = pre.relative_base
        /\ machine.ip = pre.ip + 4
        /\ ret = "pending"

\* a Multiply whose destination is its first source: [4] <- [4] * 3
C8_Witness ==
    /\ ExecutedArithmetic
    /\ executed.opcode = 2
    /\ executed.params[1] = Parameter(4, "Position")
    /\ executed.params[3] = Parameter(4, "Position")
    /\ load_position(pre, 4) = 33
    /\ load_position(machine, 4) = 99

----------------------------------------------------------------------------
ExecutedJump == lastCall # "none" /\ executed.opcode \in {5, 6}

\* the effect of a jump on ip: the target's value (cast to usize) when the
\* predicate's value is non-zero (JumpIfTrue) or zero (JumpIfFalse), else
\* the address behind the jump
JumpEffect ==
    LET p == executed.params
        predicate == OperandValue(pre, p[1])
        taken == IF executed.opcode = 5 THEN predicate # 0 ELSE predicate = 0
    IN machine.ip = IF taken THEN as_usize(OperandValue(pre, p[2])) ELSE pre.ip + 3

\* C9: JumpIfTrue sets ip to its target's value exactly when its predicate's
\* value is non-zero, JumpIfFalse exactly when it is zero; otherwise ip is
\* the address of the jump plus 3; memory and relative base do not change.
C9_Jumps ==
    ExecutedJump =>
        /\ JumpEffect
        /\ SameTape(pre, machine)
        /\ machine.relative_base = pre.relative_base
        /\ ret = "pending"

\* a JumpIfFalse was taken through a Relative target
C9_Witness ==
    /\ ExecutedJump
    /\ executed.opcode = 6
    /\ executed.params[2].mode = "Relative"
    /\ pre.relative_base # 0
    /\ OperandValue(pre, executed.params[1]) = 0
    /\ machine.ip # pre.ip + 3

----------------------------------------------------------------------------
\* C10: AdjustRelativeBase adds its parameter's value to the relative base;
\* and a Relative parameter addresses relative base + raw value, with the
\* relative base as it is when the instruction executes: for the value an
\* Output puts, for the sources and the destination of Add, Multiply,
\* LessThan and Equals, for predicate and target of the jumps, for the
\* destination of a LoadInput and for the parameter of AdjustRelativeBase.
C10_RelativeBase ==
    LET p == executed.params
        relative == \E k \in 1..Len(p) : p[k].mode = "Relative"
    IN /\ (lastCall # "none" /\ executed.opcode = 9 /\ ret # "panic") =>
             /\ machine.relative_base = pre.relative_base + OperandValue(pre, p[1])
             /\ SameTape(pre, machine)
             /\ machine.ip = pre.ip + 2
       /\ (lastCall # "none" /\ executed.opcode = 4 /\ relative) =>
             Head(machine.output) = load_position(pre, pre.relative_base + p[1].param)
       /\ (ExecutedArithmetic /\ relative) => ArithmeticEffect
       /\ (ExecutedJump /\ relative) => JumpEffect
       /\ (lastCall # "none" /\ executed.opcode = 3 /\ relative /\ ret = "pending") =>
             \E v \in (IF pre.input # <<>> THEN {back(pre.input)} ELSE ConsoleVals) :
                 TapeSetAt(pre, machine, pre.relative_base + p[1].param, v)

\* after two adjustments by 1 an Add stored 5 + 6 through the Relative
\* destination 9, at address 11
C10_Witness ==
    /\ ExecutedArithmetic
    /\ executed.params[3] = Parameter(9, "Relative")
    /\ pre.relative_base = 2
    /\ load_position(pre, 11) = 0
    /\ load_position(machine, 11) = 11

----------------------------------------------------------------------------
(* The devices seen from outside. *)

\* the values of the log entries got that came from the given source
GotFrom(from) ==
    LET entries == SelectSeq(log.got, LAMBDA e : e.from = from)
    IN [i \in 1..Len(entries) |-> entries[i].val]

\* the last operation was a get or a get_maybe of the input device
LastIsGet == log.last.op \in {"get", "get_maybe"}

\* C11: input devices are FIFO with local priority.  The values put are
\* returned by get and get_maybe in the order they were put, each exactly
\* once: what was put is, in this order, what was returned from the buffer
\* followed by what the buffer still holds, oldest first.  And whatever the
\* channel holds, a get or get_maybe made while a put value is in the buffer
\* returns the oldest put value: a value comes off the channel (or the
\* console) only when the buffer is empty.
C11_InputFifoLocalPriority ==
    /\ log.put = GotFrom("buffer") \o rev(inputDevice.buffer)
    /\ (LastIsGet /\ log.last.buffer # <<>>) =>
          /\ log.last.ok
          /\ log.last.from = "buffer"
          /\ log.last.val = back(log.last.buffer)
          /\ channel = log.last.channel
    /\ (LastIsGet /\ log.last.from \in {"channel", "console"}) =>
          log.last.buffer = <<>>

\* on a ChannelInputDevice both put values were returned, in the order put,
\* the second by a get_maybe made while a message was waiting on the channel
C11_Witness ==
    /\ inputDevice.kind = "Channel"
    /\ log.last.op = "get_maybe"
    /\ log.last.channel # <<>>
    /\ GotFrom("buffer") = <<LocalValue(1), LocalValue(2)>>
    /\ GotFrom("channel") = <<>>

\* C13: channel FIFO.  With a ChannelOutputDevice and a ChannelInputDevice
\* on the two ends of a channel and nothing put locally on the input side,
\* whatever the interleaving of the two threads, the consumer gets values
\* only off the channel, and the values the producer put are, in the order
\* put, the values the consumer has got followed by the values still in
\* flight: none lost, none twice, none out of order.
C13_ChannelFifo ==
    (inputDevice.kind = "Channel" /\ log.put = <<>> /\ receiverAlive) =>
        /\ Len(GotFrom("channel")) = Len(log.got)
        /\ log.output = GotFrom("channel") \o channel
        /\ outputDevice.buffer = <<>>

\* the consumer has got all three values the producer put, the last one by
\* a get
C13_Witness ==
    /\ inputDevice.kind = "Channel"
    /\ log.put = <<>>
    /\ receiverAlive
    /\ log.last.op = "get"
    /\ GotFrom("channel") = <<OutputValue(1), OutputValue(2), OutputValue(3)>>

\* the last step was a put of the value v on the ChannelOutputDevice
OutputPutStep(v) ==
    /\ log'.output = Append(log.output, v)
    /\ log'.last.op = "output_put"

\* C14: channel output fallback.  A put made once the receiving end is gone
\* leaves the channel alone and keeps the value in the local buffer; a put
\* made while the receiving end is alive hands the value to the channel and
\* leaves the buffer alone; no put has another outcome.  get() returns the
\* oldest value kept, and None when none is kept: the values put are, in
\* the order put, those that went to the channel, then those get() has
\* returned, then those the buffer holds oldest first.  While the receiving
\* end is alive the buffer is empty and get() has returned nothing.
C14_ChannelOutputFallback ==
    /\ [](/\ log.output = GotFrom("channel") \o channel
                              \o log.fetched \o rev(outputDevice.buffer)
          /\ receiverAlive => (outputDevice.buffer = <<>> /\ log.fetched = <<>>)
          /\ log.last.op = "output_get" =>
                /\ log.last.ok = (log.last.buffer # <<>>)
                /\ log.last.ok => /\ log.last.val = back(log.last.buffer)
                                  /\ outputDevice.buffer = pop_back(log.last.buffer)
                /\ ~log.last.ok => outputDevice.buffer = <<>>)
    /\ [][\A v \in {OutputValue(Len(log.output) + 1)} :
            OutputPutStep(v) =>
               IF receiverAlive
               THEN /\ channel' = Append(channel, v)
                    /\ outputDevice' = outputDevice
               ELSE /\ channel' = channel
                    /\ outputDevice'.buffer = push_front(outputDevice.buffer, v)]_vars

\* the first value went to the channel and was received; the two put after
\* the receiver was dropped were returned by get() in the order put, and the
\* get() after them returned None
C14_Witness ==
    /\ ~receiverAlive
    /\ GotFrom("channel") = <<OutputValue(1)>>
    /\ log.fetched = <<OutputValue(2), OutputValue(3)>>
    /\ log.last.op = "output_get"
    /\ ~log.last.ok

\* the values a sequence holds
Range(q) == {q[i] : i \in 1..Len(q)}

\* C15: no output is lost when the channel peer disappears.  Whatever the
\* interleaving of the producer's puts, the consumer's receives and the
\* consumer dropping its end, each value put to the ChannelOutputDevice has
\* been received by the peer, or can still be (it is in flight and the peer
\* holds its end), or get() returns or has returned it.
C15_NoOutputLost ==
    \A v \in Range(log.output) :
        \/ v \in Range(GotFrom("channel"))
        \/ receiverAlive /\ v \in Range(channel)
        \/ v \in Range(outputDevice.buffer)
        \/ v \in Range(log.fetched)

----------------------------------------------------------------------------
(* The machine on a channel seen from outside. *)

\* a step of execute_until_event: one iteration of its loop
EventStep == ExecuteUntilEvent \/ ExecuteUntilEventLoop

\* a step of execute: one iteration of its loop
BlockingStep == Execute \/ ExecuteLoop

\* the next instruction of m is a LoadInput
AtLoadInput(m) == RustRem(load_position(m, m.ip), 100) = 3

\* the step executed the LoadInput at machine.ip with the value v: v is
\* stored at the destination and the loop goes on behind the instruction
LoadInputStored(v) ==
    /\ ret' = "pending"
    /\ executed'.opcode = 3
    /\ TapeSetAt(machine, machine', DestAddress(machine, executed'.params[1]), v)
    /\ machine'.ip = machine.ip + 2

\* C12: execute_until_event never blocks on input.  Whatever the input
\* device, its buffer and its channel hold, execute_until_event can take its
\* step at a LoadInput at once.  When the buffer is empty and (for a channel
\* device) no message is in flight, the step is get_maybe returning None:
\* it returns InputRequired and changes neither machine nor channel; no
\* console value is read and no message is waited for.  Otherwise it is
\* get_maybe returning Some(v): v, the oldest value of the buffer, or with
\* an empty buffer the oldest message in flight, is stored.
C12_NeverBlocksOnInput ==
    /\ []((mode \in {"idle", "execute_until_event"} /\ AtLoadInput(machine)) =>
             ENABLED EventStep)
    /\ [][(EventStep /\ AtLoadInput(machine)) =>
            IF Len(machine.input) > 0
            THEN /\ LoadInputStored(back(machine.input))
                 /\ machine'.input = pop_back(machine.input)
                 /\ channel' = channel
            ELSE IF machine.input_device = "Channel" /\ Len(channel) > 0
            THEN /\ LoadInputStored(Head(channel))
                 /\ machine'.input = <<>>
                 /\ channel' = Tail(channel)
            ELSE /\ ret' = "InputRequired"
                 /\ machine' = machine
                 /\ channel' = channel]_vars

\* a machine on a channel whose producer is alive took the first message
\* with its first LoadInput and, nothing more being in flight, returned
\* InputRequired at its second, where get would wait
C12_Witness ==
    /\ machine.input_device = "Channel"
    /\ senderAlive
    /\ channel = <<>>
    /\ machine.input = <<>>
    /\ lastCall = "execute_until_event"
    /\ ret = "InputRequired"
    /\ machine.ip = 2
    /\ load_position(machine, 0) = OutputValue(1)
    /\ ~ENABLED BlockingStep

\* the machine holds a ChannelInputDevice whose sender is gone
InputChannelClosed == machine.input_device = "Channel" /\ ~senderAlive

\* C16: a closed input channel is not an error in event-driven mode.  Once
\* the sending end is gone it stays gone and no message joins those in
\* flight.  A step of execute_until_event at a LoadInput then still takes
\* the oldest message in flight when the buffer is empty; with no message
\* left and an empty buffer it returns InputRequired, leaving the machine as
\* it was, so that every further call returns InputRequired again, never an
\* error or a panic; and a value supplied with give_input is what the next
\* call stores.
C16_ClosedChannelIsInputRequired ==
    /\ [][InputChannelClosed =>
             /\ InputChannelClosed'
             /\ Len(channel') <= Len(channel)]_vars
    /\ [][(InputChannelClosed /\ EventStep /\ AtLoadInput(machine)) =>
            CASE Len(machine.input) > 0 ->
                   LoadInputStored(back(machine.input))
              [] Len(machine.input) = 0 /\ Len(channel) > 0 ->
                   /\ LoadInputStored(Head(channel))
                   /\ channel' = Tail(channel)
              [] OTHER ->
                   /\ ret' = "InputRequired"
                   /\ mode' = "idle"
                   /\ machine' = machine
                   /\ AtLoadInput(machine')
                   /\ channel' = <<>>]_vars

\* with the sender gone, the machine took the message in flight, then two
\* calls in a row returned InputRequired at the second LoadInput
C16_Witness ==
    /\ InputChannelClosed
    /\ log.output = <<OutputValue(1)>>
    /\ load_position(machine, 0) = OutputValue(1)
    /\ channel = <<>>
    /\ machine.input = <<>>
    /\ machine.ip = 2
    /\ lastCall = "execute_until_event"
    /\ ret = "InputRequired"
    /\ retBefore = "InputRequired"

\* C17: an input failure in blocking mode is recoverable by retry.  When
\* execute() returns the error of a get that failed at a LoadInput, the
\* machine is as it was before that LoadInput: nothing stored, nothing
\* taken from the device, ip at the LoadInput, so that the next execute()
\* attempts the same LoadInput.
C17_InputFailureIsRetryable ==
    (lastCall = "execute" /\ ret = "Err(input)") =>
        /\ executed.opcode = 3
        /\ SameTape(pre, machine)
        /\ machine.input = pre.input
        /\ machine.ip = pre.ip
        /\ AtLoadInput(machine)

----------------------------------------------------------------------------
(* Addresses and destinations. *)

\* the parameter p, taken by an instruction executed on m, names a negative
\* address: a negative raw value in Position mode, or one that added to the
\* relative base is negative in Relative mode
NegativeAddress(m, p) ==
    \/ p.mode = "Position" /\ p.param < 0
    \/ p.mode = "Relative" /\ m.relative_base + p.param < 0

\* the last iteration decoded an instruction that dereferences each of its
\* parameters (Add, Multiply, Output, LessThan, Equals, AdjustRelativeBase),
\* one of them naming a negative address
DecodedNegativeDereference ==
    /\ lastCall # "none"
    /\ executed.opcode \in {1, 2, 4, 7, 8, 9}
    /\ \E k \in 1..Len(executed.params) : NegativeAddress(pre, executed.params[k])

\* C18: dereferencing a negative address aborts the machine.  An instruction
\* that dereferences a negative address is not executed: the thread panics,
\* no memory cell is written, no value is output, and no further step is
\* taken.
C18_NegativeAddressAborts ==
    DecodedNegativeDereference =>
        /\ ret = "panic"
        /\ mode = "panicked"
        /\ SameTape(pre, machine)
        /\ machine.output = pre.output
        /\ machine.relative_base = pre.relative_base

\* the last iteration executed an instruction that stores (Add, Multiply,
\* LessThan, Equals, or LoadInput with its input there) and whose
\* destination parameter has the Immediate mode digit
ExecutedImmediateDestination ==
    /\ lastCall # "none"
    /\ ret = "pending"
    /\ executed.opcode \in {1, 2, 3, 7, 8}
    /\ executed.params[Len(executed.params)].mode = "Immediate"

\* C19: write destinations are resolved only in Position or Relative mode.
\* An instruction whose destination parameter carries the Immediate mode
\* digit stores nothing: the memory after it is the memory before it.
C19_NoStoreThroughImmediate ==
    ExecutedImmediateDestination => SameTape(pre, machine)

----------------------------------------------------------------------------
(* Blocking execution and the output device. *)

\* C20: blocking execution runs to Exit.  A step of execute that executes an
\* Output gives the value to the device and goes on with the loop; execute
\* returns Ok only from the iteration that executed Exit.  The default
\* output device holds, newest first, the values emitted and not yet taken:
\* get_all_output returns them all, in the order emitted, and leaves the
\* device empty, and get_output on an empty device returns None.
C20_BlockingRunsToExit ==
    /\ []((lastCall = "execute" /\ ret = "Ok") => executed.opcode = 99)
    /\ [](log.emitted = log.fetched \o rev(machine.output))
    /\ [][(BlockingStep /\ executed'.opcode = 4) =>
             /\ ret' = "pending"
             /\ mode' = "execute"
             /\ log'.emitted = Append(log.emitted, OperandValue(machine, executed'.params[1]))]_vars
    /\ [][GetAllOutput =>
             /\ log'.all = rev(machine.output)
             /\ log'.fetched = log.emitted
             /\ machine'.output = <<>>
             /\ ~output_get(machine'.output).some]_vars
    /\ [][(GetOutput /\ machine.output = <<>>) =>
             (~log'.last.ok /\ machine' = machine)]_vars

\* execute ran 104,5,109,3,204,-3,99 to its Exit without stopping at the two
\* Outputs, and get_all_output then returned 5 and 104 in this order
C20_Witness ==
    /\ lastCall = "execute"
    /\ ret = "Ok"
    /\ callStart.ip = 0
    /\ log.last.op = "get_all_output"
    /\ log.all = <<5, 104>>
    /\ log.emitted = <<5, 104>>
    /\ machine.output = <<>>

----------------------------------------------------------------------------
(* The given programs. *)

\* one call of execute on the freshly loaded program has returned
Returned(program) ==
    /\ mode = "idle"
    /\ lastCall = "execute"
    /\ callStart = from_memory(program)

\* one call of execute on the freshly loaded program is inside its loop
Running(program) ==
    /\ mode = "execute"
    /\ callStart = from_memory(program)

HaltedAtExit == mode = "idle" /\ ret = "Ok" /\ executed.opcode = 99

\* C21: execute() on the freshly loaded quine returns Ok by executing its
\* Exit, and by then the output device holds, oldest first, exactly the 16
\* words the program was loaded with; and a call of execute() on it that has
\* begun does return.
C21_QuineRoundTrip ==
    /\ [](Returned(Quine) =>
            /\ HaltedAtExit
            /\ get_all_output(machine.output).out = Quine
            /\ log.emitted = Quine
            /\ machine.memory = Quine)
    /\ (Running(Quine) ~> (Returned(Quine) /\ HaltedAtExit))

C21_Witness ==
    /\ Returned(Quine)
    /\ Len(get_all_output(machine.output).out) = 16
    /\ load_position(machine, 100) = 16
    /\ load_position(machine, 101) = 1

\* C22: execute() on the freshly loaded program 1,9,10,3,2,3,11,0,99,30,40,50
\* returns Ok by executing the Exit at address 8, and by then address 0
\* reads 3500 and address 3 holds 70; and a call of execute() on it that has
\* begun does return.
C22_CanonicalProgram ==
    /\ [](Returned(Canonical) =>
            /\ HaltedAtExit
            /\ pre.ip = 8
            /\ load_position(machine, 0) = 3500
            /\ machine.memory[3 + 1] = 70)
    /\ (Running(Canonical) ~> (Returned(Canonical) /\ HaltedAtExit))

C22_Witness ==
    /\ Returned(Canonical)
    /\ pre.ip = 8
    /\ load_position(machine, 0) = 3500

\* C23: execute() on the freshly loaded program 104,1125899906842624,99
\* returns Ok with exactly one value in the output device, and that value is
\* 1125899906842624 in all its 64 bits; likewise every program of immediate
\* outputs of such words puts exactly its immediates, in order.
C23_WideImmediate ==
    /\ Returned(<<104, Pow2_50, 99>>) =>
           /\ HaltedAtExit
           /\ get_all_output(machine.output).out = <<Pow2_50>>
    /\ \A program \in WidePrograms :
           Returned(program) =>
              /\ HaltedAtExit
              /\ get_all_output(machine.output).out = Immediates(program)

C23_Witness ==
    /\ Returned(<<104, Pow2_50, 99>>)
    /\ machine.output = <<Pow2_50>>

----------------------------------------------------------------------------
(* The pipeline. *)

BothHalted == threads.a \in {"returned", "ended"} /\ threads.b \in {"returned", "ended"}

----------------------------------------------------------------------------
(* The switched network. *)

\* the step is the turn of machine i, and the loop goes on
TurnOf(i) ==
    /\ network.loop.status = "running"
    /\ network.loop.idx = i
    /\ network'.loop.status = "running"
    /\ network'.loop.idx = i + 1

\* what machine i will read, oldest first, after the step
WillRead(i) == rev(network'.loop.programs[i].input)

\* the oldest packet queued for machine i and not handed to it yet, as the
\* values to read; the sentinel if there is none
Due(i) ==
    LET arr == network.seen.arrived[i]
        k == network.seen.taken[i]
    IN IF Len(arr) > k THEN <<arr[k + 1][1], arr[k + 1][2]>> ELSE <<-1>>

\* C25: the loop polls the machines in index order, every one in every
\* round; a machine whose turn returns InputRequired holds, after that very
\* turn, exactly X then Y of the oldest packet queued for it, or the single
\* -1 when none is queued; and nothing but its own turn touches a machine,
\* so that it finds this input at its next turn.
C25_InputGivenInTheSameTurn ==
    [][/\ (network.loop.status = "running" /\ network'.loop.status = "running"
            /\ network' # network) =>
               \/ network.loop.idx < NumMachines /\ network'.loop.idx = network.loop.idx + 1
               \/ network.loop.idx = NumMachines /\ network'.loop.idx = 0
       /\ \A i \in Machines :
             /\ (TurnOf(i) /\ network'.seen.event = "InputRequired") =>
                    /\ WillRead(i) = Due(i)
                    /\ WillRead(i) # <<>>
             /\ (network'.loop.status = "running" /\ network.loop.idx # i) =>
                    network'.loop.programs[i] = network.loop.programs[i]]_vars

\* a machine was handed the second packet queued for it while a third value
\* had been queued behind
C25_Witness ==
    /\ network.seen.event = "InputRequired"
    /\ \E i \in Machines :
          /\ network.loop.idx = i + 1
          /\ network.seen.taken[i] = 2
          /\ Len(network.seen.arrived[i]) = 2
          /\ network.seen.arrived[i][1] # network.seen.arrived[i][2]
          /\ rev(network.loop.programs[i].input) = network.seen.arrived[i][2]

\* the step in which the NAT gives its packet away
NatInjects ==
    /\ network.loop.status = "running"
    /\ network'.loop.status = "running"
    /\ network.loop.nat_packet.some
    /\ ~network'.loop.nat_packet.some

\* C26: the step in which the NAT gives its packet away is the end of a
\* round, a round in which no machine produced an output and none was handed
\* a packet; the packet goes into the queue of machine 0, and just before
\* the queue of every machine that has not exited is empty.
C26_NatInjectsOnlyWhenIdle ==
    [][NatInjects =>
          /\ network.loop.idx = NumMachines
          /\ ~network.seen.produced
          /\ ~network.seen.handed
          /\ \A i \in Machines :
                ~network.loop.programs[i].exited => network.loop.ready_packets[i] = <<>>
          /\ network'.loop.ready_packets[0] =
                 push_front(network.loop.ready_packets[0], network.loop.nat_packet.val)
          /\ \A i \in Machines \ {0} :
                network'.loop.ready_packets[i] = network.loop.ready_packets[i]]_vars

\* the NAT has just given its packet to machine 0, while a packet waits for
\* a machine that has exited
C26_Witness ==
    /\ network.loop.status = "running"
    /\ network.loop.idx = 0
    /\ network.loop.last_nat_packet.some
    /\ ~network.loop.nat_packet.some
    /\ Len(network.loop.ready_packets[0]) > 0
    /\ network.loop.ready_packets[0][1] = network.loop.last_nat_packet.val
    /\ \E i \in Machines :
          network.loop.programs[i].exited /\ network.loop.ready_packets[i] # <<>>

----------------------------------------------------------------------------
(* Program loading. *)

\* a text without the whitespace at its end
RECURSIVE TrimEnd(_)
TrimEnd(raw) ==
    IF Len(raw) > 0 /\ raw[Len(raw)] \in Whitespace
    THEN TrimEnd(SubSeq(raw, 1, Len(raw) - 1)) ELSE raw

\* a signed integer in decimal
IsInteger(item) ==
    LET digits == IF Len(item) > 0 /\ item[1] \in {"+", "-"} THEN Tail(item) ELSE item
    IN Len(digits) > 0 /\ \A i \in 1..Len(digits) : digits[i] \in Digits

\* a comma-separated list of signed integers
IsIntegerList(raw) == \A i \in 1..Len(split(raw)) : IsInteger(split(raw)[i])

\* C27: raw_to_memory and from_raw_input, given a comma-separated list of
\* signed integers followed by any whitespace, succeed with the memory the
\* list alone gives; given a text with an item that is no integer, they
\* return an error.
C27_TrailingWhitespaceAccepted ==
    loader.called # "none" =>
        IF IsIntegerList(TrimEnd(loader.raw))
        THEN /\ loader.result.ok
             /\ loader.result.memory = raw_to_memory(TrimEnd(loader.raw)).memory
        ELSE ~loader.result.ok

----------------------------------------------------------------------------
(* The disassembler. *)

\* C28: a call of disassemble returns: it does not panic, whatever the
\* loaded image and ip, a data word that reads as an instruction reaching
\* past the end of the image included.
C28_DisassembleNeverFatal ==
    lastCall = "disassemble" => (ret = "Ok" /\ mode = "idle")

\* C29: a call of disassemble leaves the machine as it was: ip, memory,
\* relative base and both devices.
C29_DisassembleChangesNothing ==
    lastCall = "disassemble" =>
        /\ machine.ip = callStart.ip
        /\ machine.memory = callStart.memory
        /\ machine.extended_memory = callStart.extended_memory
        /\ machine.relative_base = callStart.relative_base
        /\ machine.input = callStart.input
        /\ machine.output = callStart.output

----------------------------------------------------------------------------
(* The two entry points side by side. *)

----------------------------------------------------------------------------
(* A machine halted by execute(), called again. *)

\* C31: a call of execute_until_event() made after execute() returned Ok
\* returns Exited, a call of execute() made then returns Ok, and neither
\* changes the memory.
C31_HaltedByExecuteStaysHalted ==
    ( /\ retBefore = "Ok"
      /\ mode \notin {"execute", "execute_until_event"} )
    => /\ lastCall = "execute_until_event" => ret = "Exited"
       /\ lastCall = "execute" => ret = "Ok"
       /\ machine.memory = callStart.memory
       /\ machine.extended_memory = callStart.extended_memory

----------------------------------------------------------------------------
(* The feedback chain of run_amplifier_chain (aoc_7), with two amplifiers: *)
(* the first (machine) sends to the last (twin) and, use_feedback being    *)
(* set, the last sends back to the first.  Both hold a ChannelInputDevice  *)
(* and a ChannelOutputDevice of aoc_7, whose output device keeps one value *)
(* (last) and only when the send fails.  Each amplifier is moved into a    *)
(* thread that calls execute().unwrap(); the last one's thread then        *)
(* publishes output.get().unwrap().  An amplifier is dropped, and with it  *)
(* its receiver and its sender, when its thread ends or panics.  The       *)
(* programs stay inside their image and use the modes 0 and 1 only, where  *)
(* the interpreter of aoc_7 executes as the shared one does.               *)

MaxRounds == 2
PhaseSettings == {1, 2}

\* reads its phase setting, then rounds times: reads a signal, outputs it
\* plus the phase setting
FeedbackProgram(rounds) ==
    <<3, 20, 3, 21, 1, 21, 20, 21, 4, 21, 1001, 22, -1, 22, 1005, 22, 2, 99,
      0, 0, 0, 0, rounds>>

\* the amplifier of a thread still exists
Alive(t) == threads[t] \in {"executing", "returned"}

\* ChannelOutputDevice::put of aoc_7: last afterwards, sent being what
\* self.channel.send(output) returned
amplifier_output_put(last, v, sent) ==
    IF sent.ok THEN last ELSE [some |-> TRUE, val |-> v]

\* ChannelOutputDevice::get of aoc_7: Err(No output available) without last
amplifier_output_get(last) == last

\* one iteration of execute() on the amplifier m: a LoadInput pops the
\* buffer or takes what recv returns from inq, an Output sends on outq
amplifier_iteration(m, inq, outq, last, receiver_alive) ==
    LET received == IF InputTurnsToSource(m) THEN recv(inq) ELSE NoMessage
        r == execute_iteration(m, received, TRUE)
        v == load(m, r.instr.params[1])
        sent == send(outq, receiver_alive, v)
    IN [m |-> [r.m EXCEPT !.output = <<>>],
        ret |-> r.ret,
        inq |-> IF InputTurnsToSource(m) /\ received.ok THEN received.queue ELSE inq,
        outq |-> IF r.instr.opcode = 4 THEN sent.queue ELSE outq,
        last |-> IF r.instr.opcode = 4 THEN amplifier_output_put(last, v, sent) ELSE last,
        put |-> IF r.instr.opcode = 4 THEN <<v>> ELSE <<>>]

InitFeedback ==
    /\ \E phaseA \in PhaseSettings, phaseB \in PhaseSettings, rounds \in 1..MaxRounds :
          /\ machine = give_inputs(replace_input(from_memory(FeedbackProgram(rounds)), "Channel"),
                                   <<phaseA, 0>>)
          /\ twin = give_inputs(replace_input(from_memory(FeedbackProgram(rounds)), "Channel"),
                                <<phaseB>>)
    /\ threads = [a |-> "executing", b |-> "executing",
                  ab |-> <<>>, ba |-> <<>>,
                  lastA |-> NoResult, lastB |-> NoResult,
                  emitted |-> <<>>, result |-> NoResult]
    /\ mode = "idle"
    /\ ret = "none"
    /\ lastCall = "none"
    /\ callStart = machine
    /\ pre = machine
    /\ executed = NoInstruction
    /\ retBefore = "none"
    /\ given = 2
    /\ wrapped = FALSE
    /\ stored = EmptyMap
    /\ NoDevices
    /\ network = <<>>
    /\ loader = <<>>

feedbackUnchanged ==
    /\ UNCHANGED <<mode, ret, lastCall, callStart, pre, executed, retBefore, given, wrapped, stored>>
    /\ UNCHANGED ioVars
    /\ UNCHANGED <<network, loader>>

\* the thread of the first amplifier: one iteration of execute(), which
\* waits in recv while nothing comes back and the last amplifier exists
FeedbackA ==
    /\ threads.a = "executing"
    /\ InputTurnsToSource(machine) => recv_returns(threads.ba, Alive("b"))
    /\ \E i \in {amplifier_iteration(machine, threads.ba, threads.ab, threads.lastA, Alive("b"))} :
          /\ machine' = i.m
          /\ threads' = [threads EXCEPT !.a = ThreadAfter(i.ret), !.ba = i.inq,
                                        !.ab = i.outq, !.lastA = i.last]
    /\ UNCHANGED twin
    /\ feedbackUnchanged

\* the thread of the last amplifier: one iteration of execute()
FeedbackB ==
    /\ threads.b = "executing"
    /\ InputTurnsToSource(twin) => recv_returns(threads.ab, Alive("a"))
    /\ \E i \in {amplifier_iteration(twin, threads.ab, threads.ba, threads.lastB, Alive("a"))} :
          /\ twin' = i.m
          /\ threads' = [threads EXCEPT !.b = ThreadAfter(i.ret), !.ab = i.inq,
                                        !.ba = i.outq, !.lastB = i.last,
                                        !.emitted = @ \o i.put]
    /\ UNCHANGED machine
    /\ feedbackUnchanged

\* the thread of the first amplifier ends once execute() returned Ok
FeedbackEndA ==
    /\ threads.a = "returned"
    /\ threads' = [threads EXCEPT !.a = "ended"]
    /\ UNCHANGED <<machine, twin>>
    /\ feedbackUnchanged

\* the thread of the last amplifier publishes output.get().unwrap() and ends
FeedbackEndB ==
    /\ threads.b = "returned"
    /\ \E o \in {amplifier_output_get(threads.lastB)} :
          threads' = [threads EXCEPT !.b = IF o.some THEN "ended" ELSE "panicked",
                                     !.result = o]
    /\ UNCHANGED <<machine, twin>>
    /\ feedbackUnchanged

NextFeedback ==
    \/ FeedbackA
    \/ FeedbackB
    \/ FeedbackEndA
    \/ FeedbackEndB

SpecFeedback == InitFeedback /\ [][NextFeedback]_vars

\* every thread joined: what run_amplifier_chain returns
run_amplifier_chain_returns ==
    IF threads.a = "panicked" \/ threads.b = "panicked"
    THEN [ok |-> FALSE, val |-> 0]
    ELSE [ok |-> threads.result.some, val |-> threads.result.val]

Joined == threads.a \in {"ended", "panicked"} /\ threads.b \in {"ended", "panicked"}

\* C32: with use_feedback, once every thread is joined run_amplifier_chain
\* returns the last value the last amplifier gave its output device,
\* whichever way the threads interleaved.
C32_FeedbackResult ==
    Joined =>
        /\ Len(threads.emitted) > 0
        /\ run_amplifier_chain_returns
              = [ok |-> TRUE, val |-> threads.emitted[Len(threads.emitted)]]

----------------------------------------------------------------------------
(* The Breakout driver of aoc_13 (part2): the program, its word 0 set to   *)
(* 2, runs execute() in a thread of its own with a ChannelOutputDevice;    *)
(* the driver loop polls the notify channel, whose sender the program's    *)
(* input device holds, and then the output channel.  The programs here     *)
(* never read input: the input device is only held, and dropped with the   *)
(* program when the thread ends.                                           *)

MaxTriples == 2
ScoreTriples == {<<-1, 0, 5>>, <<-1, 0, 7>>}
DrawTriples == {<<1, 1, 4>>}

\* the sequences of up to n triples the program emits
RECURSIVE TripleLists(_)
TripleLists(n) ==
    IF n = 0 THEN {<<>>}
    ELSE TripleLists(n - 1)
         \cup {Append(l, t) : l \in {l \in TripleLists(n - 1) : Len(l) = n - 1},
                              t \in ScoreTriples \cup DrawTriples}

\* a program that outputs the values of the triples and halts; its word 0
\* is the one part2 overwrites
RECURSIVE EmitTriples(_)
EmitTriples(l) ==
    IF l = <<>> THEN <<99>>
    ELSE <<104, Head(l)[1], 104, Head(l)[2], 104, Head(l)[3]>> \o EmitTriples(Tail(l))

\* memory[0] = 2
two_quarters(memory) == [memory EXCEPT ![1] = 2]

\* TileID::from_int succeeds
valid_tile(i) == i \in 0..4

\* Screen::draw
draw(tiles, x, y, tile_id) ==
    IF valid_tile(tile_id)
    THEN [ok |-> TRUE, tiles |-> (<<x, y>> :> tile_id) @@ tiles]
    ELSE [ok |-> FALSE, tiles |-> tiles]

InitBreakout ==
    /\ \E l \in TripleLists(MaxTriples) :
          machine = from_memory(two_quarters(<<1, 0, 0, 0>> \o EmitTriples(l)))
    /\ twin = from_memory(<<>>)
    /\ threads = [program |-> "executing", driver |-> "notify",
                  score |-> 0, curr_output |-> <<0, 0, 0>>, num_outputs_gotten |-> 0,
                  tiles |-> EmptyMap, emitted |-> <<>>, processed |-> <<>>]
    /\ mode = "idle"
    /\ ret = "none"
    /\ lastCall = "none"
    /\ callStart = machine
    /\ pre = machine
    /\ executed = NoInstruction
    /\ retBefore = "none"
    /\ given = 0
    /\ wrapped = FALSE
    /\ stored = EmptyMap
    /\ channel = <<>>
    /\ senderAlive = TRUE
    /\ receiverAlive = TRUE
    /\ inputDevice = [kind |-> "Default", buffer |-> <<>>]
    /\ outputDevice = [buffer |-> <<>>]
    /\ log = EmptyLog
    /\ network = <<>>
    /\ loader = <<>>

breakoutUnchanged ==
    UNCHANGED <<mode, ret, lastCall, callStart, pre, executed, retBefore, given, wrapped,
                stored, inputDevice, outputDevice, log, twin, network, loader>>

\* the program thread: one iteration of execute(), an Output sending on the
\* output channel
BreakoutProgram ==
    /\ threads.program = "executing"
    /\ \E r \in {execute_iteration(machine, NoMessage, TRUE)} :
          \E o \in {channel_output_iteration(machine, r, channel, receiverAlive)} :
              /\ machine' = o.m
              /\ channel' = o.queue
              /\ threads' = [threads EXCEPT
                    !.program = ThreadAfter(r.ret),
                    !.emitted = IF r.instr.opcode = 4
                                THEN Append(@, load(machine, r.instr.params[1])) ELSE @]
              /\ senderAlive' = (ThreadAfter(r.ret) # "panicked")
    /\ UNCHANGED receiverAlive
    /\ breakoutUnchanged

\* the program thread ends: the program is dropped, and with it the sender
\* of the output channel and the sender of the notify channel
BreakoutProgramEnd ==
    /\ threads.program = "returned"
    /\ threads' = [threads EXCEPT !.program = "ended"]
    /\ senderAlive' = FALSE
    /\ UNCHANGED <<machine, channel, receiverAlive>>
    /\ breakoutUnchanged

\* the head of the driver loop: notify_rx.try_recv().  No notification is
\* ever in flight, so it is Err: Disconnected once the program is dropped,
\* which ends the loop, Empty before.
DriverNotify ==
    /\ threads.driver = "notify"
    /\ threads' = [threads EXCEPT !.driver = IF senderAlive THEN "output" ELSE "join"]
    /\ UNCHANGED <<machine, channel, senderAlive, receiverAlive>>
    /\ breakoutUnchanged

\* the rest of the loop body: a complete triple is processed, else a value
\* is taken from the output channel when one is in flight
DriverOutput ==
    /\ threads.driver = "output"
    /\ IF threads.num_outputs_gotten = 3
       THEN LET c == threads.curr_output
                is_score == c[1] = -1 /\ c[2] = 0
                drawn == draw(threads.tiles, c[1], c[2], c[3])
            IN /\ threads' = [threads EXCEPT
                      !.score = IF is_score THEN c[3] ELSE @,
                      !.tiles = IF is_score THEN @ ELSE drawn.tiles,
                      !.num_outputs_gotten = IF is_score \/ drawn.ok THEN 0 ELSE @,
                      !.processed = Append(@, c),
                      !.driver = IF is_score \/ drawn.ok THEN "notify" ELSE "failed"]
               /\ receiverAlive' = (is_score \/ drawn.ok)
               /\ UNCHANGED channel
       ELSE \E out \in {try_recv(channel)} :
               /\ threads' = [threads EXCEPT
                      !.curr_output = IF out.ok
                                      THEN [@ EXCEPT ![threads.num_outputs_gotten + 1] = out.val]
                                      ELSE @,
                      !.num_outputs_gotten = IF out.ok THEN @ + 1 ELSE @,
                      !.driver = "notify"]
               /\ channel' = out.queue
               /\ UNCHANGED receiverAlive
    /\ UNCHANGED <<machine, senderAlive>>
    /\ breakoutUnchanged

\* program_thread.join() returns and part2 prints the final score
DriverJoin ==
    /\ threads.driver = "join"
    /\ threads.program \in {"ended", "panicked"}
    /\ threads' = [threads EXCEPT !.driver = IF threads.program = "ended"
                                             THEN "returned" ELSE "failed"]
    /\ receiverAlive' = FALSE
    /\ UNCHANGED <<machine, channel, senderAlive>>
    /\ breakoutUnchanged

NextBreakout ==
    \/ BreakoutProgram
    \/ BreakoutProgramEnd
    \/ DriverNotify
    \/ DriverOutput
    \/ DriverJoin

SpecBreakout == InitBreakout /\ [][NextBreakout]_vars

\* the triples the values emitted so far make up
RECURSIVE Triples(_)
Triples(values) ==
    IF Len(values) < 3 THEN <<>>
    ELSE <<SubSeq(values, 1, 3)>> \o Triples(SubSeq(values, 4, Len(values)))

\* the score of the last score triple of l, 0 when it has none
RECURSIVE LastScore(_)
LastScore(l) ==
    IF l = <<>> THEN 0
    ELSE LET t == l[Len(l)]
         IN IF t[1] = -1 /\ t[2] = 0 THEN t[3] ELSE LastScore(SubSeq(l, 1, Len(l) - 1))

\* C33: when part2 has printed the final score, the driver loop has
\* processed every triple the program emitted, and the score printed is
\* that of the last score triple emitted.
C33_EveryOutputProcessed ==
    threads.driver = "returned" =>
        /\ threads.processed = Triples(threads.emitted)
        /\ threads.score = LastScore(Triples(threads.emitted))

----------------------------------------------------------------------------
(* The painting robot of aoc_11: run_robot_and_paint gives the program a   *)
(* ChannelInputDevice and a ChannelOutputDevice, moves it into a thread    *)
(* that calls execute().unwrap(), and runs paint_squares, which holds the  *)
(* other ends: send the colour under the robot, recv a colour, recv a      *)
(* turn, paint and move when all three succeeded, else leave the loop.     *)
(* channel is robot_in, threads.robot_out the channel of the outputs.      *)

\* the robot: rounds times, reads the colour, outputs 1 for black and 0 for
\* white, then outputs turn; with reads_last it reads once more and halts
RobotProgram(rounds, turn_output, reads_last) ==
    <<3, 20, 108, 0, 20, 21, 4, 21, 104, turn_output, 1001, 22, -1, 22, 1005, 22, 0>>
    \o (IF reads_last THEN <<3, 20, 99>> ELSE <<99, 0, 0>>)
    \o <<0, 0, rounds>>

\* Direction::turn
turn(dir, right) ==
    CASE dir = "Up" -> IF right THEN "Right" ELSE "Left"
      [] dir = "Down" -> IF right THEN "Left" ELSE "Right"
      [] dir = "Left" -> IF right THEN "Up" ELSE "Down"
      [] dir = "Right" -> IF right THEN "Down" ELSE "Up"

\* Position::apply_direction
apply_direction(pos, dir) ==
    CASE dir = "Up" -> [pos EXCEPT !.y = @ + 1]
      [] dir = "Down" -> [pos EXCEPT !.y = @ - 1]
      [] dir = "Left" -> [pos EXCEPT !.x = @ - 1]
      [] dir = "Right" -> [pos EXCEPT !.x = @ + 1]

\* *out.get(&curr_position).unwrap_or(&false) as i64
colour_at(out, pos) == IF pos \in DOMAIN out THEN bool_to_int(out[pos]) ELSE 0

NoRecv == [ok |-> FALSE, val |-> 0]

InitRobot ==
    /\ \E rounds \in 1..MaxRounds, turn_output \in {0, 1}, reads_last \in BOOLEAN :
          machine = replace_input(from_memory(RobotProgram(rounds, turn_output, reads_last)),
                                  "Channel")
    /\ \E start_square_color \in BOOLEAN :
          threads = [robot |-> "executing", driver |-> "send", robot_out |-> <<>>,
                     out |-> ([x |-> 0, y |-> 0] :> start_square_color),
                     curr_position |-> [x |-> 0, y |-> 0], curr_direction |-> "Up",
                     send_result |-> FALSE, color_output |-> NoRecv, turn_output |-> NoRecv,
                     emitted |-> <<>>, recorded |-> <<>>]
    /\ twin = from_memory(<<>>)
    /\ mode = "idle"
    /\ ret = "none"
    /\ lastCall = "none"
    /\ callStart = machine
    /\ pre = machine
    /\ executed = NoInstruction
    /\ retBefore = "none"
    /\ given = 0
    /\ wrapped = FALSE
    /\ stored = EmptyMap
    /\ channel = <<>>
    /\ senderAlive = TRUE
    /\ receiverAlive = TRUE
    /\ inputDevice = [kind |-> "Default", buffer |-> <<>>]
    /\ outputDevice = [buffer |-> <<>>]
    /\ log = EmptyLog
    /\ network = <<>>
    /\ loader = <<>>

robotUnchanged ==
    UNCHANGED <<mode, ret, lastCall, callStart, pre, executed, retBefore, given, wrapped,
                stored, inputDevice, outputDevice, log, twin, network, loader>>

\* the robot exists: its thread has not ended
RobotAlive == threads.robot \in {"executing", "returned"}

\* paint_squares holds robot_out and robot_in until it returns
DriverHoldsChannels == threads.driver \in {"send", "recv_color", "recv_turn", "decide"}

\* the robot thread: one iteration of execute(); a LoadInput waits in recv
\* on robot_in, an Output sends on robot_out
RobotStep ==
    /\ threads.robot = "executing"
    /\ InputTurnsToSource(machine) => recv_returns(channel, DriverHoldsChannels)
    /\ \E received \in GetChoices(machine) :
          \E r \in {execute_iteration(machine, received, TRUE)} :
              \E o \in {channel_output_iteration(machine, r, threads.robot_out,
                                                 DriverHoldsChannels)} :
                  /\ machine' = o.m
                  /\ channel' = IF InputTurnsToSource(machine) /\ received.ok
                                THEN received.queue ELSE channel
                  /\ threads' = [threads EXCEPT
                        !.robot = ThreadAfter(r.ret),
                        !.robot_out = o.queue,
                        !.emitted = IF r.instr.opcode = 4
                                    THEN Append(@, load(machine, r.instr.params[1])) ELSE @]
    /\ UNCHANGED <<senderAlive, receiverAlive>>
    /\ robotUnchanged

\* the robot thread ends and drops the program with both its channel ends
RobotEnd ==
    /\ threads.robot = "returned"
    /\ threads' = [threads EXCEPT !.robot = "ended"]
    /\ receiverAlive' = FALSE
    /\ UNCHANGED <<machine, channel, senderAlive>>
    /\ robotUnchanged

\* robot_in.send(colour under the robot)
DriverSend ==
    /\ threads.driver = "send"
    /\ \E sent \in {send(channel, RobotAlive, colour_at(threads.out, threads.curr_position))} :
          /\ channel' = sent.queue
          /\ threads' = [threads EXCEPT !.send_result = sent.ok, !.driver = "recv_color"]
    /\ UNCHANGED <<machine, senderAlive, receiverAlive>>
    /\ robotUnchanged

\* let color_output = robot_out.recv()
DriverRecvColor ==
    /\ threads.driver = "recv_color"
    /\ recv_returns(threads.robot_out, RobotAlive)
    /\ \E received \in {recv(threads.robot_out)} :
          threads' = [threads EXCEPT
                         !.color_output = [ok |-> received.ok, val |-> received.val],
                         !.robot_out = received.queue,
                         !.driver = "recv_turn"]
    /\ UNCHANGED <<machine, channel, senderAlive, receiverAlive>>
    /\ robotUnchanged

\* let turn_output = robot_out.recv()
DriverRecvTurn ==
    /\ threads.driver = "recv_turn"
    /\ recv_returns(threads.robot_out, RobotAlive)
    /\ \E received \in {recv(threads.robot_out)} :
          threads' = [threads EXCEPT
                         !.turn_output = [ok |-> received.ok, val |-> received.val],
                         !.robot_out = received.queue,
                         !.driver = "decide"]
    /\ UNCHANGED <<machine, channel, senderAlive, receiverAlive>>
    /\ robotUnchanged

\* all three succeeded: paint, turn and move; else leave the loop and
\* return, dropping robot_out and robot_in
DriverDecide ==
    /\ threads.driver = "decide"
    /\ IF threads.send_result /\ threads.color_output.ok /\ threads.turn_output.ok
       THEN LET color == threads.color_output.val
                dir == turn(threads.curr_direction, threads.turn_output.val # 0)
            IN /\ threads' = [threads EXCEPT
                      !.out = (threads.curr_position :> (color # 0)) @@ @,
                      !.curr_direction = dir,
                      !.curr_position = apply_direction(@, dir),
                      !.recorded = Append(@, <<color, threads.turn_output.val>>),
                      !.driver = "send"]
               /\ UNCHANGED senderAlive
       ELSE /\ threads' = [threads EXCEPT !.driver = "join"]
            /\ senderAlive' = FALSE
    /\ UNCHANGED <<machine, channel, receiverAlive>>
    /\ robotUnchanged

\* robot_thread.join(): Ok(painted_squares), or Err when the thread panicked
DriverJoinRobot ==
    /\ threads.driver = "join"
    /\ threads.robot \in {"ended", "panicked"}
    /\ threads' = [threads EXCEPT !.driver = IF threads.robot = "ended"
                                             THEN "returned" ELSE "failed"]
    /\ UNCHANGED <<machine, channel, senderAlive, receiverAlive>>
    /\ robotUnchanged

NextRobot ==
    \/ RobotStep
    \/ RobotEnd
    \/ DriverSend
    \/ DriverRecvColor
    \/ DriverRecvTurn
    \/ DriverDecide
    \/ DriverJoinRobot

SpecRobot == InitRobot /\ [][NextRobot]_vars

\* the robot thread and the driver are scheduled again and again
SpecRobotFair ==
    /\ SpecRobot
    /\ WF_vars(RobotStep)
    /\ WF_vars(RobotEnd)
    /\ WF_vars(DriverSend)
    /\ WF_vars(DriverRecvColor)
    /\ WF_vars(DriverRecvTurn)
    /\ WF_vars(DriverDecide)
    /\ WF_vars(DriverJoinRobot)

\* the pairs the values emitted so far make up
RECURSIVE Pairs(_)
Pairs(values) ==
    IF Len(values) < 2 THEN <<>>
    ELSE <<SubSeq(values, 1, 2)>> \o Pairs(SubSeq(values, 3, Len(values)))

IsPrefix(s, t) == Len(s) <= Len(t) /\ s = SubSeq(t, 1, Len(s))

\* C34: with a robot that reads one input and then produces two outputs,
\* again and again until it halts, no thread panics; what the driver has
\* painted and moved is always the first of the output pairs the robot has
\* completed, in order, and all of them once the driver has left its loop,
\* which it does after the robot thread ended, so that the join succeeds;
\* and under every fair interleaving the driver does return.
C34_RobotLockStep ==
    /\ [](/\ threads.robot # "panicked"
          /\ threads.driver # "failed"
          /\ IsPrefix(threads.recorded, Pairs(threads.emitted))
          /\ threads.driver \in {"join", "returned"} =>
                threads.recorded = Pairs(threads.emitted)
          /\ threads.driver \in {"join", "returned"} => threads.robot = "ended")
    /\ <>(threads.driver = "returned")

\* the driver returned after two rounds of a robot that read a last colour
C34_Witness ==
    /\ threads.driver = "returned"
    /\ threads.robot = "ended"
    /\ Len(threads.recorded) = 2
    /\ threads.recorded = Pairs(threads.emitted)
    /\ threads.send_result
    /\ ~threads.color_output.ok
    /\ Cardinality(DOMAIN threads.out) = 2

----------------------------------------------------------------------------
(* The switched network: the packets on their way. *)

\* what machine i holds to read, oldest first
Holds(i) == rev(network.loop.programs[i].input)

IsSuffix(s, t) == Len(s) <= Len(t) /\ s = SubSeq(t, Len(t) - Len(s) + 1, Len(t))

\* the values of the packet machine i was handed last
LastHanded(i) ==
    LET k == network.seen.taken[i]
    IN IF k > 0 THEN {network.seen.arrived[i][k]} ELSE {}

\* C35: what a machine holds to read is always the rest of one block: of
\* its own address, of a single -1, or of X, Y of the packet it was handed
\* last; a step either takes values from the front of it, or is the
\* machine's own turn returning InputRequired, which has found it empty and
\* leaves exactly one new block, the -1 or X, Y of the oldest packet queued.
\* So the values a machine reads are its address, then whole blocks.
C35_InputBlocks ==
    /\ [](\A i \in Machines :
             \E block \in {<<i>>, <<-1>>} \cup LastHanded(i) : IsSuffix(Holds(i), block))
    /\ [][\A i \in Machines :
             \/ IsSuffix(WillRead(i), Holds(i))
             \/ /\ TurnOf(i)
                /\ network'.seen.event = "InputRequired"
                /\ WillRead(i) = Due(i)]_vars

\* a machine has read the X of the second packet it was handed and holds
\* its Y
C35_Witness ==
    \E i \in Machines :
       /\ network.seen.taken[i] = 2
       /\ network.seen.arrived[i][1] # network.seen.arrived[i][2]
       /\ Holds(i) = <<network.seen.arrived[i][2][2]>>
       /\ network.seen.event = "ProducedOutput"

\* the step is a turn of the loop that goes on
Turn == network.loop.status = "running" /\ network'.loop.status = "running"
        /\ network.loop.idx < NumMachines

\* what the machine of the turn had output of its packet before the step
Pending == network.loop.buffered_out[network.loop.idx]

\* the step is a turn that completes the packet of its machine with the
\* value output
Completes ==
    /\ Turn
    /\ network'.seen.event = "ProducedOutput"
    /\ Len(Pending) = 2
    /\ network'.loop.buffered_out[network.loop.idx] = <<>>

\* C36: the outputs of a machine are gathered for that machine alone, one
\* by one in the order output; a packet is queued for a machine, or given
\* to the NAT, only by the turn that outputs the third value of its source,
\* and is then that source's address, X and Y in that order; and when the
\* address gathered is neither a machine's nor 255, the third output ends
\* the run with an error and nothing is queued.
C36_OutputTriples ==
    [][/\ Turn =>
            /\ \A i \in Machines \ {network.loop.idx} :
                  network'.loop.buffered_out[i] = network.loop.buffered_out[i]
            /\ \/ network'.loop.buffered_out[network.loop.idx] = Pending
                  /\ network'.seen.event # "ProducedOutput"
               \/ network'.seen.event = "ProducedOutput"
                  /\ Len(Pending) < 2
                  /\ network'.loop.buffered_out[network.loop.idx]
                        = Append(Pending, network'.seen.val)
               \/ Completes
            /\ \A a \in Machines :
                  IF Completes /\ Pending[1] = a
                  THEN network'.loop.ready_packets[a]
                          = push_front(network.loop.ready_packets[a],
                                       <<Pending[2], network'.seen.val>>)
                  ELSE a # network.loop.idx =>
                          network'.loop.ready_packets[a] = network.loop.ready_packets[a]
            /\ IF Completes /\ Pending[1] = NatAddr
               THEN network'.loop.nat_packet = SomePacket(Pending[2], network'.seen.val)
               ELSE network'.loop.nat_packet = network.loop.nat_packet
            /\ Completes => Pending[1] \in Machines \cup {NatAddr}
       /\ ( /\ network.loop.status = "running"
            /\ network.loop.idx < NumMachines
            /\ Len(Pending) = 2
            /\ Pending[1] \notin Machines \cup {NatAddr} )
          => \/ network'.loop.status = "Err"
             \/ /\ network'.loop.buffered_out = network.loop.buffered_out
                /\ network'.seen.event # "ProducedOutput"]_vars

\* a machine has completed a packet for the other machine while that one
\* was in the middle of a packet of its own
C36_Witness ==
    /\ network.loop.status = "running"
    /\ network.seen.event = "ProducedOutput"
    /\ network.loop.idx = 1
    /\ network.loop.buffered_out[0] = <<>>
    /\ Len(network.loop.buffered_out[1]) = 2
    /\ network.loop.ready_packets[1] # <<>>
    /\ network.loop.ready_packets[1][1] = <<3, network.seen.val>>
    /\ network.seen.arrived[1] = <<<<3, network.seen.val>>>>

\* the packets queued for machine i and not handed to it yet, oldest first
NotHanded(i) ==
    SubSeq(network.seen.arrived[i], network.seen.taken[i] + 1, Len(network.seen.arrived[i]))

\* the step hands machine i a packet
Hands(i) == network'.seen.taken[i] = network.seen.taken[i] + 1

\* C37: the queue of a machine holds, oldest at the back, exactly the
\* packets queued for it (by a machine or by the NAT) that it was not
\* handed yet, in the order they were queued; and the packet a machine is
\* handed is the oldest of them.  So no packet is handed twice, none is
\* handed before an older one, and none leaves the queue unhanded.
C37_FifoDelivery ==
    /\ [](network.loop.status = "running" =>
             \A i \in Machines : rev(network.loop.ready_packets[i]) = NotHanded(i))
    /\ [][\A i \in Machines :
             Hands(i) => /\ NotHanded(i) # <<>>
                         /\ WillRead(i) = Head(NotHanded(i))
                         /\ network'.loop.ready_packets[i]
                               = pop_back(network.loop.ready_packets[i])]_vars

\* machine 0 was handed a packet a machine sent it and then the packet the
\* NAT gave it
C37_Witness ==
    /\ network.loop.status = "running"
    /\ network.seen.event = "InputRequired"
    /\ network.loop.idx = 1
    /\ network.seen.taken[0] = 2
    /\ Len(network.seen.arrived[0]) = 2
    /\ network.loop.last_nat_packet.some
    /\ network.seen.arrived[0][2] = network.loop.last_nat_packet.val
    /\ network.seen.arrived[0][1] # network.seen.arrived[0][2]
    /\ Holds(0) = network.seen.arrived[0][2]

----------------------------------------------------------------------------
(* The switched network: what run reports. *)

\* the step is the end of a round
RoundEnds ==
    /\ network.loop.status = "running"
    /\ network.loop.idx = NumMachines
    /\ network' # network

\* C38: the value printed as "Y value of first packet sent to NAT" is the
\* Y of the first packet a machine addressed to 255.
C38_ReportsFirstNatPacket ==
    [][(RoundEnds /\ reports_first(network.loop).some) =>
          /\ network.seen.first_nat.some
          /\ reports_first(network.loop).val = network.seen.first_nat.val[2]]_vars

\* the network is idle with a packet held by the NAT whose Y is that of the
\* packet the NAT gave machine 0 last
Repeated ==
    /\ ~network.seen.produced
    /\ ~network.seen.handed
    /\ network.loop.nat_packet.some
    /\ network.seen.nat_delivered.some
    /\ network.loop.nat_packet.val[2] = network.seen.nat_delivered.val[2]

\* the network is idle with a packet held by the NAT
IdleHolding ==
    /\ ~network.seen.produced
    /\ ~network.seen.handed
    /\ network.loop.nat_packet.some

\* C39: run returns Ok only at the end of a round, and the end of a round
\* makes it return exactly when the network is idle and the NAT holds a
\* packet with the Y of the packet it gave machine 0 last; that Y is what is
\* reported as repeated, and no queue gets the packet.  At the end of any
\* other idle round with a packet held, the packet goes into the queue of
\* machine 0, the NAT holds none afterwards, and the packet is remembered as
\* the last one given; the end of any other round changes neither the
\* queues nor what the NAT holds.
C39_Termination ==
    /\ [](network.loop.status = "running" =>
             network.loop.last_nat_packet = network.seen.nat_delivered)
    /\ [][/\ (network.loop.status = "running" /\ network'.loop.status = "Ok") => RoundEnds
          /\ RoundEnds =>
                /\ network'.loop.status = (IF Repeated THEN "Ok" ELSE "running")
                /\ reports_repeated(network.loop)
                      = [some |-> Repeated,
                         val |-> IF Repeated THEN network.seen.nat_delivered.val[2] ELSE 0]
                /\ (IdleHolding /\ ~Repeated) =>
                      /\ network'.loop.ready_packets
                            = [network.loop.ready_packets EXCEPT
                                  ![0] = push_front(@, network.loop.nat_packet.val)]
                      /\ ~network'.loop.nat_packet.some
                      /\ network'.loop.last_nat_packet = network.loop.nat_packet
                /\ ~IdleHolding =>
                      /\ network'.loop.ready_packets = network.loop.ready_packets
                      /\ network'.loop.nat_packet = network.loop.nat_packet
                      /\ network'.loop.last_nat_packet = network.loop.last_nat_packet]_vars

\* run has returned Ok
C39_Witness == network.loop.status = "Ok"

----------------------------------------------------------------------------
(* The standalone interpreter of aoc_9 (src/aoc_9/src/main.rs), which has  *)
(* its own IntcodeProgram, run on machine, beside the shared one, run on   *)
(* twin, on the same program.  It decodes as the shared one does on words  *)
(* that are not negative; the destination of a store is always a position. *)

\* IntcodeProgram::load of aoc_9
aoc9_load(m, lp) ==
    CASE lp.mode = "Position" -> load_position(m, as_usize(lp.param))
      [] lp.mode = "Immediate" -> lp.param
      [] lp.mode = "Relative" -> load_position(m, as_usize(lp.param + m.relative_base))

\* IntcodeProgram::store of aoc_9
aoc9_store(m, location, value) ==
    IF usize_ge(location, Len(m.memory))
    THEN [m EXCEPT !.extended_memory =
             [a \in DOMAIN @ \cup {location} |-> IF a = location THEN value ELSE @[a]]]
    ELSE [m EXCEPT !.memory[location + 1] = value]

\* IntcodeProgram::execute_next_instruction of aoc_9: ret is "pending" for
\* Ok(false), "Ok" for Ok(true), else the error
aoc9_execute_next_instruction(m, console) ==
    LET dec == get_instruction(m)
        op == dec.instr.opcode
        p == dec.instr.params
        n == dec.m
    IN IF dec.status # "Ok"
       THEN [m |-> m, ret |-> "Err(Invalid opcode)"]
       ELSE CASE op = 1 ->
                   [m |-> aoc9_store(n, as_usize(p[3].param), aoc9_load(n, p[1]) + aoc9_load(n, p[2])),
                    ret |-> "pending"]
              [] op = 2 ->
                   [m |-> aoc9_store(n, as_usize(p[3].param), aoc9_load(n, p[1]) * aoc9_load(n, p[2])),
                    ret |-> "pending"]
              [] op = 3 ->
                   LET got == input_get(n.input, console)
                   IN IF got.ok
                      THEN [m |-> aoc9_store([n EXCEPT !.input = got.buffer],
                                             as_usize(p[1].param), got.val),
                            ret |-> "pending"]
                      ELSE [m |-> n, ret |-> "Err(input)"]
              [] op = 4 ->
                   [m |-> [n EXCEPT !.output = output_put(@, aoc9_load(n, p[1]))],
                    ret |-> "pending"]
              [] op = 5 ->
                   [m |-> IF aoc9_load(n, p[1]) # 0
                          THEN [n EXCEPT !.ip = as_usize(aoc9_load(n, p[2]))] ELSE n,
                    ret |-> "pending"]
              [] op = 6 ->
                   [m |-> IF aoc9_load(n, p[1]) = 0
                          THEN [n EXCEPT !.ip = as_usize(aoc9_load(n, p[2]))] ELSE n,
                    ret |-> "pending"]
              [] op = 7 ->
                   [m |-> aoc9_store(n, as_usize(p[3].param),
                                     bool_to_int(aoc9_load(n, p[1]) < aoc9_load(n, p[2]))),
                    ret |-> "pending"]
              [] op = 8 ->
                   [m |-> aoc9_store(n, as_usize(p[3].param),
                                     bool_to_int(aoc9_load(n, p[1]) = aoc9_load(n, p[2]))),
                    ret |-> "pending"]
              [] op = 9 ->
                   [m |-> [n EXCEPT !.relative_base = as_usize(aoc9_load(n, p[1]))],
                    ret |-> "pending"]
              [] op = 99 -> [m |-> n, ret |-> "Ok"]

\* the relative base is adjusted by first and by second, then the word at
\* offset from it is output; the words from 7 on are data
AdjustTwice(first, second, offset) ==
    <<109, first, 109, second, 204, offset, 99, 11, 22, 33, 44, 55>>

Adjustments == 0..2
Offsets == {7, 8}

Day9Programs ==
    {AdjustTwice(first, second, offset) :
        first \in Adjustments, second \in Adjustments, offset \in Offsets}

InitDay9 ==
    /\ \E program \in Day9Programs :
          /\ machine = from_memory(program)
          /\ twin = from_memory(program)
    /\ threads = [day9 |-> "pending", shared |-> "pending"]
    /\ mode = "idle"
    /\ ret = "none"
    /\ lastCall = "none"
    /\ callStart = machine
    /\ pre = machine
    /\ executed = NoInstruction
    /\ retBefore = "none"
    /\ given = 0
    /\ wrapped = FALSE
    /\ stored = EmptyMap
    /\ NoDevices
    /\ network = <<>>
    /\ loader = <<>>

day9Unchanged ==
    /\ UNCHANGED <<mode, ret, lastCall, callStart, pre, executed, retBefore, given, wrapped, stored>>
    /\ UNCHANGED ioVars
    /\ UNCHANGED <<network, loader>>

\* execute() of aoc_9: one turn of its while loop
Day9Execute ==
    /\ threads.day9 = "pending"
    /\ \E console \in ConsoleChoices(machine) :
          \E r \in {aoc9_execute_next_instruction(machine, console)} :
              /\ machine' = r.m
              /\ threads' = [threads EXCEPT !.day9 = r.ret]
    /\ UNCHANGED twin
    /\ day9Unchanged

\* execute() of the shared IntcodeProgram: one iteration of its loop
SharedExecute ==
    /\ threads.shared = "pending"
    /\ \E console \in ConsoleChoices(twin) :
          \E r \in {execute_iteration(twin, console, TRUE)} :
              /\ twin' = r.m
              /\ threads' = [threads EXCEPT !.shared = r.ret]
    /\ UNCHANGED machine
    /\ day9Unchanged

NextDay9 ==
    \/ Day9Execute
    \/ SharedExecute

SpecDay9 == InitDay9 /\ [][NextDay9]_vars

\* C40: on a program that adjusts the relative base twice and then outputs
\* a word read relative to it, the interpreter of aoc_9 ends with the
\* relative base the shared one ends with, the sum of the two adjustments,
\* and has output the same word: the one at the offset plus that sum.
C40_Day9AdjustsAsShared ==
    (threads.day9 = "Ok" /\ threads.shared = "Ok") =>
        /\ machine.relative_base = twin.relative_base
        /\ machine.relative_base = load_position(machine, 1) + load_position(machine, 3)
        /\ machine.output = twin.output
        /\ machine.output
              = <<load_position(machine, load_position(machine, 5) + machine.relative_base)>>

====
